---------------------------- MODULE Spec2Model ----------------------------
(***************************************************************************)
(* A model of the Hyperliquid TypeScript signing examples: the numeric     *)
(* wire codec (floatToWire), the order encoder (orderTypeToWire,           *)
(* orderRequestToOrderWire, orderWiresToOrderAction), the client order id  *)
(* (Cloid), the action hashers (actionHash of the ethers signing module    *)
(* and hashAction of Signing.tsx), the signature normalisation (splitSig   *)
(* and ethers.Signature.from) and the two asynchronous signing calls       *)
(* (signL1Action, signStandardL1Action).                                   *)
(*                                                                         *)
(* Conventions.  A JavaScript string is a sequence of one-character        *)
(* strings (Text); a byte string is a sequence of numbers 0..255.  A       *)
(* JavaScript value is a tagged record [k |-> kind, v |-> payload]; an     *)
(* object keeps its keys in insertion order as a sequence of <<key,        *)
(* value>> pairs.  A call that returns is Ok(value), a call that throws    *)
(* is Err(message).  Numbers wider than 31 bits are kept in limbs.         *)
(***************************************************************************)
EXTENDS Integers, Sequences, FiniteSets, TLC

VARIABLES
    call,       \* harness: the function invocation, [op, ...arguments]
    ret,        \* harness: Pending, or the result of the invocation
    pc,         \* signing flow: control point of the running flow
    flow,       \* signing flow: its inputs (which script, order, nonce, address, signer)
    wire,       \* signing flow: result of orderRequestToOrderWire (None before)
    action,     \* signing flow: result of orderWiresToOrderAction (None before)
    digest,     \* signing flow: the action hash handed to the phantom agent (None before)
    signer,     \* signing flow: the messages the signing capability was asked to sign
    outcome,    \* signing flow: what the signing call returned or threw (None before)
    sent        \* signing flow: the payloads handed to the transport

vars == <<call, ret, pc, flow, wire, action, digest, signer, outcome, sent>>
harnessVars == <<call, ret>>
flowVars == <<pc, flow, wire, action, digest, signer, outcome, sent>>

---------------------------------------------------------------------------
(* Results of calls, and the values that stand for "nothing yet".          *)

Ok(v) == [ok |-> TRUE, val |-> v]
Err(m) == [ok |-> FALSE, err |-> m]
Pending == [ok |-> FALSE, err |-> "pending"]
None == [k |-> "none"]

T(s) == [k |-> "str", v |-> s]          \* a JavaScript string value
N(n) == [k |-> "int", v |-> n]          \* a JavaScript integer number value
B(b) == [k |-> "bool", v |-> b]         \* a JavaScript boolean
Null == [k |-> "null"]                  \* null
Undef == [k |-> "undefined"]            \* undefined
Obj(kvs) == [k |-> "obj", v |-> kvs]    \* an object: <<key, value>> pairs in insertion order
Arr(xs) == [k |-> "arr", v |-> xs]      \* an array

---------------------------------------------------------------------------
(* Text helpers.                                                           *)

Rep(c, n) == [i \in 1..n |-> c]

Drop(s, n) == IF n >= Len(s) THEN <<>> ELSE SubSeq(s, n + 1, Len(s))

Take(s, n) == IF n >= Len(s) THEN s ELSE SubSeq(s, 1, n)

\* String.prototype.startsWith
StartsWith(s, p) == Len(s) >= Len(p) /\ SubSeq(s, 1, Len(p)) = p

\* The printable ASCII characters, code 32 first (codes 34, 92 and 96, which no
\* text of the program holds, are written by their number).
Ascii ==
    << " ", "!", "<34>", "#", "$", "%", "&", "'", "(", ")", "*", "+", ",", "-", ".", "/",
       "0", "1", "2", "3", "4", "5", "6", "7", "8", "9", ":", ";", "<", "=", ">", "?",
       "@", "A", "B", "C", "D", "E", "F", "G", "H", "I", "J", "K", "L", "M", "N", "O",
       "P", "Q", "R", "S", "T", "U", "V", "W", "X", "Y", "Z", "[", "<92>", "]", "^", "_",
       "<96>", "a", "b", "c", "d", "e", "f", "g", "h", "i", "j", "k", "l", "m", "n", "o",
       "p", "q", "r", "s", "t", "u", "v", "w", "x", "y", "z", "{", "|", "}", "~" >>

\* UTF-8 code of a printable ASCII character.
CharCode(c) == 31 + CHOOSE i \in 1..Len(Ascii) : Ascii[i] = c

Utf8(s) == [i \in 1..Len(s) |-> CharCode(s[i])]

HexDigits == <<"0", "1", "2", "3", "4", "5", "6", "7", "8", "9", "a", "b", "c", "d", "e", "f">>
UpperHexDigits == <<"0", "1", "2", "3", "4", "5", "6", "7", "8", "9", "A", "B", "C", "D", "E", "F">>

IsHexChar(c) == \E i \in 1..16 : HexDigits[i] = c \/ UpperHexDigits[i] = c

IsLowerHexChar(c) == \E i \in 1..16 : HexDigits[i] = c

\* Value of a hexadecimal digit, in either case.
HexVal(c) == (CHOOSE i \in 1..16 : HexDigits[i] = c \/ UpperHexDigits[i] = c) - 1

---------------------------------------------------------------------------
(* Byte strings.                                                           *)

\* Buffer.from(text, 'hex') of Node: whole pairs of hex digits are decoded from the
\* left; decoding stops at the first pair that is incomplete or holds a non-hex
\* character, and what was decoded so far is the result (no error).
RECURSIVE BufferFromHex(_)
BufferFromHex(s) ==
    IF Len(s) < 2 \/ ~IsHexChar(s[1]) \/ ~IsHexChar(s[2])
    THEN <<>>
    ELSE <<16 * HexVal(s[1]) + HexVal(s[2])>> \o BufferFromHex(Drop(s, 2))

\* TypedArray.prototype.set(src, off) on a copy of data; the caller checks the range.
SetAt(data, src, off) ==
    [i \in 1..Len(data) |-> IF i > off /\ i <= off + Len(src) THEN src[i - off] ELSE data[i]]

Zeros(n) == [i \in 1..n |-> 0]

---------------------------------------------------------------------------
(* encode of @msgpack/msgpack, for the values an order action is made of:  *)
(* null and undefined (nil), booleans, integers 0..65535, strings shorter  *)
(* than 256 bytes, arrays and objects of fewer than 16 entries.  An object *)
(* is written key by key in insertion order; a key whose value is          *)
(* undefined is counted and written as nil (ignoreUndefined is off).       *)

encodeNumber(n) ==
    IF n < 128 THEN <<n>>
    ELSE IF n < 256 THEN <<204, n>>
    ELSE <<205, n \div 256, n % 256>>

encodeString(s) ==
    IF Len(s) < 32 THEN <<160 + Len(s)>> \o Utf8(s) ELSE <<217, Len(s)>> \o Utf8(s)

\* The entries of an object as a list: key, value, key, value, ...
Entries(kvs) ==
    [i \in 1..(2 * Len(kvs)) |-> IF i % 2 = 1 THEN T(kvs[(i + 1) \div 2][1]) ELSE kvs[i \div 2][2]]

\* The encodings of a list of values, one after the other: a container writes its
\* header and its members take its place at the front of the list.
RECURSIVE encodeAll(_)
encodeAll(xs) ==
    IF xs = <<>> THEN <<>>
    ELSE LET x == Head(xs)
         IN  CASE x.k = "null" -> <<192>> \o encodeAll(Tail(xs))
               [] x.k = "undefined" -> <<192>> \o encodeAll(Tail(xs))
               [] x.k = "bool" -> <<IF x.v THEN 195 ELSE 194>> \o encodeAll(Tail(xs))
               [] x.k = "int" -> encodeNumber(x.v) \o encodeAll(Tail(xs))
               [] x.k = "str" -> encodeString(x.v) \o encodeAll(Tail(xs))
               [] x.k = "arr" -> <<144 + Len(x.v)>> \o encodeAll(x.v \o Tail(xs))
               [] x.k = "obj" -> <<128 + Len(x.v)>> \o encodeAll(Entries(x.v) \o Tail(xs))

encode(x) == encodeAll(<<x>>)

---------------------------------------------------------------------------
(* The nonce.  A nonce argument is a JavaScript number: [neg, frac, w],    *)
(* its sign, whether it has a fractional part, and the integer part of its *)
(* magnitude as 16-bit limbs, most significant first: four limbs below     *)
(* 2^64, five limbs (the first nonzero) from 2^64 on.                      *)

\* The two bytes of a limb, the low byte first.
LimbBytesLittleEndian(w) == <<w % 256, w \div 256>>

\* The two bytes of a limb, the high byte first.
LimbBytes(w) == <<w \div 256, w % 256>>

RECURSIVE LimbsToBytes(_)
LimbsToBytes(ws) == IF ws = <<>> THEN <<>> ELSE LimbBytes(Head(ws)) \o LimbsToBytes(Tail(ws))

RECURSIVE IncLimbs(_)
IncLimbs(ws) ==
    IF ws = <<>> THEN <<>>
    ELSE LET front == SubSeq(ws, 1, Len(ws) - 1)
             last == ws[Len(ws)]
         IN  IF last = 65535 THEN IncLimbs(front) \o <<0>> ELSE front \o <<last + 1>>

\* BigInt.asUintN(64, n): the low four limbs, in two's complement when n < 0.
AsUint64(n) ==
    LET low == SubSeq(n.w, Len(n.w) - 3, Len(n.w))
    IN  IF n.neg THEN IncLimbs([i \in 1..4 |-> 65535 - low[i]]) ELSE low

\* nonceToBytes of the signing module: BigInt(nonce) throws for a number that is
\* no integer, Buffer.writeBigUInt64BE throws outside 0..2^64-1.
nonceToBytes(nonce) ==
    IF nonce.frac THEN Err("RangeError: not an integer")
    ELSE IF nonce.neg \/ Len(nonce.w) > 4 THEN Err("ERR_OUT_OF_RANGE")
    ELSE Ok(LimbsToBytes(nonce.w))

---------------------------------------------------------------------------
(* The action hashers.  keccak256 is kept symbolic and injective: a digest *)
(* is the byte string that was hashed, tagged.                             *)

keccak256(data) == [k |-> "keccak256", v |-> data]

HexPrefix == <<"0", "x">>

\* addressToBytes of the signing module.
addressToBytes(address) ==
    BufferFromHex(IF StartsWith(address, HexPrefix) THEN Drop(address, 2) ELSE address)

\* The keccak256 digest of the bytes a hasher put together, or its error.
Digest(data) == IF data.ok THEN Ok(keccak256(data.val)) ELSE data

\* No address taken for the address of 20 zero bytes.
VaultBytesDefaulted(vaultAddress) ==
    <<1>> \o (IF vaultAddress.k = "null" THEN Zeros(20) ELSE addressToBytes(vaultAddress.v))

\* The presence marker and the address bytes actionHash appends.
VaultBytes(vaultAddress) ==
    IF vaultAddress.k = "null" THEN <<0>> ELSE <<1>> \o addressToBytes(vaultAddress.v)

\* Buffer.concat of actionHash once nonceToBytes returned or threw.
actionHashConcat(act, vaultAddress, nonceBytes) ==
    IF ~nonceBytes.ok THEN nonceBytes
    ELSE Ok(encode(act) \o nonceBytes.val \o VaultBytes(vaultAddress))

\* The bytes actionHash concatenates and hashes; vaultAddress is Null or T(text).
actionHashInput(act, vaultAddress, nonce) ==
    actionHashConcat(act, vaultAddress, nonceToBytes(nonce))

actionHash(act, vaultAddress, nonce) == Digest(actionHashInput(act, vaultAddress, nonce))

\* addressToBytes of Signing.tsx.
addressToBytesStd(address) ==
    BufferFromHex(IF StartsWith(address, HexPrefix) THEN Drop(address, 2) ELSE address)

\* data.set(address, offset) of hashAction: TypedArray.set throws when the source
\* does not fit.
SetAddress(data, addr, off) ==
    IF off + Len(addr) > Len(data) THEN Err("RangeError: offset is out of bounds")
    ELSE Ok(SetAt(data, addr, off))

\* hashAction once the array is allocated and holds the action: the nonce by
\* DataView.setBigUint64 (which wraps modulo 2^64), the presence byte, the address.
hashActionFill(data, n, vaultAddress, nonce) ==
    IF nonce.frac THEN Err("RangeError: not an integer")
    ELSE IF vaultAddress.k = "null"
    THEN Ok(SetAt(SetAt(data, LimbsToBytes(AsUint64(nonce)), n), <<0>>, n + 8))
    ELSE SetAddress(SetAt(SetAt(data, LimbsToBytes(AsUint64(nonce)), n), <<1>>, n + 8),
                    addressToBytesStd(vaultAddress.v), n + 9)

\* hashAction once the action is encoded: a zeroed array of the final length.
hashActionData(msgPackBytes, vaultAddress, nonce) ==
    hashActionFill(SetAt(Zeros(Len(msgPackBytes) + (IF vaultAddress.k = "null" THEN 9 ELSE 29)),
                         msgPackBytes, 0),
                   Len(msgPackBytes), vaultAddress, nonce)

\* The bytes hashAction of Signing.tsx fills in and hashes.
hashActionInput(act, vaultAddress, nonce) == hashActionData(encode(act), vaultAddress, nonce)

hashAction(act, vaultAddress, nonce) == Digest(hashActionInput(act, vaultAddress, nonce))

---------------------------------------------------------------------------
(* JavaScript numbers of the numeric codec.  A finite number is kept as    *)
(* the decimal it is written as: [neg, ip, fp], its sign (negative zero    *)
(* is neg with no digits), the digits of its integer part without leading  *)
(* zeros and the digits of its fraction without trailing zeros.  The       *)
(* arithmetic of this section is exact on decimals; the next section gives *)
(* the double a decimal denotes, and the operations of the program round   *)
(* to doubles as the code does.                                            *)

Num(neg, ip, fp) == [neg |-> neg, ip |-> ip, fp |-> fp]

\* The numbers that are no decimals: Infinity with its sign, and NaN.
Infinity(neg) == [neg |-> neg, inf |-> TRUE]

NaN == [nan |-> TRUE]

IsFinite(x) == "ip" \in DOMAIN x

IsNaN(x) == "nan" \in DOMAIN x

StripLeadingZeros(ds) ==
    IF \A i \in 1..Len(ds) : ds[i] = 0 THEN <<>>
    ELSE SubSeq(ds, CHOOSE i \in 1..Len(ds) : ds[i] # 0 /\ \A j \in 1..(i - 1) : ds[j] = 0,
                Len(ds))

StripTrailingZeros(ds) ==
    IF \A i \in 1..Len(ds) : ds[i] = 0 THEN <<>>
    ELSE SubSeq(ds, 1,
                CHOOSE i \in 1..Len(ds) : ds[i] # 0 /\ \A j \in (i + 1)..Len(ds) : ds[j] = 0)

Normal(neg, ip, fp) == Num(neg, StripLeadingZeros(ip), StripTrailingZeros(fp))

IsZero(x) == x.ip = <<>> /\ x.fp = <<>>

PadLeft(ds, n) == IF Len(ds) >= n THEN ds ELSE Rep(0, n - Len(ds)) \o ds

PadRight(ds, n) == IF Len(ds) >= n THEN ds ELSE ds \o Rep(0, n - Len(ds))

Max(a, b) == IF a >= b THEN a ELSE b

\* A digit string plus one, one digit longer when every digit is 9.
RECURSIVE IncDigits(_)
IncDigits(ds) ==
    IF ds = <<>> THEN <<1>>
    ELSE LET front == SubSeq(ds, 1, Len(ds) - 1)
             last == ds[Len(ds)]
         IN  IF last = 9 THEN IncDigits(front) \o <<0>> ELSE front \o <<last + 1>>

\* a < b for two digit strings of one length: a has the smaller digit where they
\* first differ.
DigitsLess(a, b) ==
    \E i \in 1..Len(a) : a[i] < b[i] /\ \A j \in 1..(i - 1) : a[j] = b[j]

\* a + b + carry for two digit strings of one length; the result is one digit
\* longer.  The right halves are added first and hand their carry to the left ones.
RECURSIVE AddDigits(_, _, _)
AddLeft(a, b, right) ==
    IF right[1] = 0 THEN AddDigits(a, b, 0) \o Tail(right)
    ELSE AddDigits(a, b, 1) \o Tail(right)

AddDigits(a, b, carry) ==
    IF a = <<>> THEN <<carry>>
    ELSE IF Len(a) = 1 THEN <<(a[1] + b[1] + carry) \div 10, (a[1] + b[1] + carry) % 10>>
    ELSE AddLeft(SubSeq(a, 1, Len(a) \div 2), SubSeq(b, 1, Len(a) \div 2),
                 AddDigits(SubSeq(a, Len(a) \div 2 + 1, Len(a)),
                           SubSeq(b, Len(a) \div 2 + 1, Len(a)), carry))

\* The borrow a - b - borrow leaves, then its digits, for two digit strings of one
\* length.
RECURSIVE BorrowSub(_, _, _)
SubLeft(a, b, right) ==
    IF right[1] = 0 THEN BorrowSub(a, b, 0) \o Tail(right)
    ELSE BorrowSub(a, b, 1) \o Tail(right)

BorrowSub(a, b, borrow) ==
    IF a = <<>> THEN <<borrow>>
    ELSE IF Len(a) = 1
    THEN <<IF a[1] - b[1] - borrow < 0 THEN 1 ELSE 0, (a[1] - b[1] - borrow + 10) % 10>>
    ELSE SubLeft(SubSeq(a, 1, Len(a) \div 2), SubSeq(b, 1, Len(a) \div 2),
                 BorrowSub(SubSeq(a, Len(a) \div 2 + 1, Len(a)),
                           SubSeq(b, Len(a) \div 2 + 1, Len(a)), borrow))

\* a - b - borrow for two digit strings of one length, a >= b.
SubDigits(a, b, borrow) == Tail(BorrowSub(a, b, borrow))

\* The digits of x with its integer part padded to ni and its fraction to nf digits.
Aligned(x, ni, nf) == PadLeft(x.ip, ni) \o PadRight(x.fp, nf)

\* |a - b| for two digit strings of one length.
MagnitudeDiff(da, db) ==
    IF DigitsLess(da, db) THEN SubDigits(db, da, 0) ELSE SubDigits(da, db, 0)

\* The digits of |a - b|, one digit longer than the aligned digits da of a and db of b.
DiffDigits(a, b, da, db) ==
    IF a.neg # b.neg /\ ~IsZero(a) /\ ~IsZero(b)
    THEN AddDigits(da, db, 0)
    ELSE <<0>> \o MagnitudeDiff(da, db)

\* The number whose digits are r, the first ni of them its integer part; never negative.
Unaligned(r, ni) == Normal(FALSE, SubSeq(r, 1, ni), SubSeq(r, ni + 1, Len(r)))

AbsDiffAt(a, b, ni, nf) ==
    Unaligned(DiffDigits(a, b, Aligned(a, ni, nf), Aligned(b, ni, nf)), ni + 1)

\* Math.abs(a - b), exactly.
AbsDiff(a, b) == AbsDiffAt(a, b, Max(Len(a.ip), Len(b.ip)), Max(Len(a.fp), Len(b.fp)))

GreaterEqAt(a, b, ni, nf) == ~DigitsLess(Aligned(a, ni, nf), Aligned(b, ni, nf))

\* a >= b for two numbers that are not negative.
GreaterEq(a, b) == GreaterEqAt(a, b, Max(Len(a.ip), Len(b.ip)), Max(Len(a.fp), Len(b.fp)))

---------------------------------------------------------------------------
(* IEEE 754 binary64.  The program holds the double nearest to the decimal *)
(* a number is written as.  DoubleOf gives that double as the exact decimal *)
(* it stands for: the decimal is scaled by a power of two until its integer *)
(* part has 53 bits, rounded to an integer with a tie going to the even    *)
(* one, and scaled back.  The scaling works on limbs, groups of 5 digits   *)
(* taken as numbers below 100000, and is local: the quotient limb of a     *)
(* division by d, where d divides 100000, depends on the limb before it    *)
(* only, and so does the carry of a doubling.                              *)

\* 2^47, 2^52, 2^53 and 2^58 in digits.
TwoTo47 == <<1, 4, 0, 7, 3, 7, 4, 8, 8, 3, 5, 5, 3, 2, 8>>

TwoTo52 == <<4, 5, 0, 3, 5, 9, 9, 6, 2, 7, 3, 7, 0, 4, 9, 6>>

TwoTo53 == <<9, 0, 0, 7, 1, 9, 9, 2, 5, 4, 7, 4, 0, 9, 9, 2>>

TwoTo58 == <<2, 8, 8, 2, 3, 0, 3, 7, 6, 1, 5, 1, 7, 1, 1, 7, 4, 4>>

\* ds without one leading zero; at least nf digits stay.
DropZero(ds, nf) == IF Len(ds) > nf /\ ds[1] = 0 THEN Tail(ds) ELSE ds

\* The digits of 2 * ds, as a sequence of its own.
DoubleDigits(ds) ==
    SubSeq([i \in 1..(Len(ds) + 1) |->
               (2 * (IF i = 1 THEN 0 ELSE ds[i - 1])
                + (IF i <= Len(ds) /\ ds[i] >= 5 THEN 1 ELSE 0)) % 10],
           1, Len(ds) + 1)

\* a < b for two integers in digits without leading zeros.
IntLess(a, b) == Len(a) < Len(b) \/ (Len(a) = Len(b) /\ DigitsLess(a, b))

\* Twice the value ds with nf fraction digits.
Twice(ds, nf) == DropZero(DoubleDigits(ds), nf)

\* The limbs of a digit string whose length is a multiple of 5, and back.
ToLimbs(ds) ==
    SubSeq([i \in 1..(Len(ds) \div 5) |->
               10000 * ds[5 * i - 4] + 1000 * ds[5 * i - 3] + 100 * ds[5 * i - 2]
               + 10 * ds[5 * i - 1] + ds[5 * i]],
           1, Len(ds) \div 5)

FromLimbs(ls) ==
    SubSeq([j \in 1..(5 * Len(ls)) |->
               (ls[(j + 4) \div 5] \div <<10000, 1000, 100, 10, 1>>[((j - 1) % 5) + 1]) % 10],
           1, 5 * Len(ls))

\* The limbs of ls / d with one more fraction limb, d dividing 100000: long
\* division, where the remainder a limb meets is that of the limb before it.
DivLimbs(ls, d) ==
    SubSeq([i \in 1..(Len(ls) + 1) |->
               ((IF i = 1 THEN 0 ELSE ls[i - 1] % d) * 100000
                + (IF i <= Len(ls) THEN ls[i] ELSE 0)) \div d],
           1, Len(ls) + 1)

\* The limbs of 2 * ls, one limb longer.
TwiceLimbs(ls) ==
    SubSeq([i \in 1..(Len(ls) + 1) |->
               (2 * (IF i = 1 THEN 0 ELSE ls[i - 1])
                + (IF i <= Len(ls) /\ ls[i] >= 50000 THEN 1 ELSE 0)) % 100000],
           1, Len(ls) + 1)

\* ls without one leading zero limb; at least nfl limbs stay.
DropLimb(ls, nfl) == IF Len(ls) > nfl /\ ls[1] = 0 THEN Tail(ls) ELSE ls

\* The value ls with nfl fraction limbs times 2, times 32 (a division of 100000
\* times the value by 3125) and times 2^20.
Up1(ls, nfl) == DropLimb(TwiceLimbs(ls), nfl)

Up5(ls, nfl) == DropLimb(DivLimbs(ls, 3125), nfl)

Up20(ls, nfl) == Up5(Up5(Up5(Up5(ls, nfl), nfl), nfl), nfl)

\* The value ls divided by 2, by 32 and by 2^20; nfl is the number of fraction
\* limbs after the division.
Down1(ls, nfl) == DropLimb(DivLimbs(ls, 2), nfl)

Down5(ls, nfl) == DropLimb(DivLimbs(ls, 32), nfl)

Down20(ls, nfl) ==
    DropLimb(DivLimbs(DivLimbs(DivLimbs(DropLimb(DivLimbs(ls, 32), nfl - 3), 32), 32), 32), nfl)

\* The integer part of the limbs ls in digits without leading zeros, and the
\* fraction in digits.
IntDigits(ls, nfl) == StripLeadingZeros(FromLimbs(SubSeq(ls, 1, Len(ls) - nfl)))

FracDigits(ls, nfl) == FromLimbs(SubSeq(ls, Len(ls) - nfl + 1, Len(ls)))

\* The value ls with nfl fraction limbs, already multiplied by 2^s, multiplied on
\* by powers of two: the result [ls, nfl, s] is the value times 2^s, with the s that
\* brings the integer part into 2^52 .. 2^53 - 1, or with s = 1074 and a smaller
\* integer part: the doubles are the multiples of 2^-1074, and below 2^-1022 they
\* are subnormal, with fewer than 53 bits.  The value is not zero.  An integer part
\* of 6 limbs or more is at least 2^72, one of at most 1 limb is below 2^32.
RECURSIVE Scaled(_, _, _)
Scaled(ls, nfl, s) ==
    IF Len(ls) - nfl >= 6 THEN Scaled(Down20(ls, nfl + 4), nfl + 4, s - 20)
    ELSE IF s <= 1054 /\ Len(ls) - nfl <= 1 THEN Scaled(Up20(ls, nfl), nfl, s + 20)
    ELSE IF s <= 1069 /\ IntLess(IntDigits(ls, nfl), TwoTo47) THEN Scaled(Up5(ls, nfl), nfl, s + 5)
    ELSE IF s < 1074 /\ IntLess(IntDigits(ls, nfl), TwoTo52) THEN Scaled(Up1(ls, nfl), nfl, s + 1)
    ELSE IF ~IntLess(IntDigits(ls, nfl), TwoTo58) THEN Scaled(Down5(ls, nfl + 1), nfl + 1, s - 5)
    ELSE IF ~IntLess(IntDigits(ls, nfl), TwoTo53) THEN Scaled(Down1(ls, nfl + 1), nfl + 1, s - 1)
    ELSE [ls |-> ls, nfl |-> nfl, s |-> s]

\* The integer m, or m + 1 when the fraction f is above one half, or is one half
\* and m is odd; no digits are the integer 0.
RoundHalfEven(m, f) ==
    IF f # <<>> /\ f[1] >= 5
       /\ (f[1] > 5 \/ StripTrailingZeros(Tail(f)) # <<>> \/ (m # <<>> /\ m[Len(m)] % 2 = 1))
    THEN IncDigits(m)
    ELSE m

\* The limbs ls with nfl fraction limbs divided by 2^s, as [ls, nfl].
RECURSIVE Unscaled(_, _, _)
Unscaled(ls, nfl, s) ==
    IF ls = <<>> \/ s = 0 THEN [ls |-> ls, nfl |-> nfl]
    ELSE IF s >= 20 THEN Unscaled(Down20(ls, nfl + 4), nfl + 4, s - 20)
    ELSE IF s <= -20 THEN Unscaled(Up20(ls, nfl), nfl, s + 20)
    ELSE IF s >= 5 THEN Unscaled(Down5(ls, nfl + 1), nfl + 1, s - 5)
    ELSE IF s > 0 THEN Unscaled(Down1(ls, nfl + 1), nfl + 1, s - 1)
    ELSE IF s <= -5 THEN Unscaled(Up5(ls, nfl), nfl, s + 5)
    ELSE Unscaled(Up1(ls, nfl), nfl, s + 1)

\* The digits ds, the last nf of them fraction digits, as a number.
FromDigits(neg, ds, nf) ==
    Normal(neg, SubSeq(ds, 1, Len(ds) - nf), SubSeq(ds, Len(ds) - nf + 1, Len(ds)))

FromLimbsAt(neg, v) == FromDigits(neg, FromLimbs(v.ls), 5 * v.nfl)

\* The digits ds padded with zeros to whole limbs, on the left and on the right.
PadLeft5(ds) == PadLeft(ds, 5 * ((Len(ds) + 4) \div 5))

PadRight5(ds) == PadRight(ds, 5 * ((Len(ds) + 4) \div 5))

\* The mantissa of a scaled value, rounded.
Mantissa(v) == RoundHalfEven(IntDigits(v.ls, v.nfl), FracDigits(v.ls, v.nfl))

\* The double with mantissa m that was scaled by 2^s: zero when nothing is left of
\* a value below half of 2^-1074, Infinity when m / 2^s reaches 2^1024.
DoubleAt(neg, m, s) ==
    IF m = <<>> THEN Num(neg, <<>>, <<>>)
    ELSE IF s <= -972 \/ (s = -971 /\ m = TwoTo53) THEN Infinity(neg)
    ELSE FromLimbsAt(neg, Unscaled(ToLimbs(PadLeft5(m)), 0, s))

DoubleFrom(neg, v) == DoubleAt(neg, Mantissa(v), v.s)

\* The value of the digits ip.fp in limbs, scaled.
ScaledDigits(ip, fp) ==
    Scaled(ToLimbs(PadLeft5(ip) \o PadRight5(fp)), (Len(fp) + 4) \div 5, 0)

\* The double nearest to x, a tie going to the even mantissa.  An integer of at
\* most 15 digits is below 2^53 and is a double; 10^309 is above every finite
\* double, and 10^-324 below half of the smallest one.
DoubleOf(x) ==
    IF ~IsFinite(x) THEN x
    ELSE IF IsZero(x) \/ (x.fp = <<>> /\ Len(x.ip) <= 15) THEN x
    ELSE IF Len(x.ip) >= 310 THEN Infinity(x.neg)
    ELSE IF x.ip = <<>> /\ Len(x.fp) > 324 /\ (\A i \in 1..324 : x.fp[i] = 0)
    THEN Num(x.neg, <<>>, <<>>)
    ELSE DoubleFrom(x.neg, ScaledDigits(x.ip, x.fp))

\* a >= b as the program compares a number that is not negative with a finite
\* one: false for NaN, true for Infinity.
AtLeast(a, b) ==
    IF IsNaN(a) THEN FALSE ELSE IF ~IsFinite(a) THEN ~a.neg ELSE GreaterEq(a, b)

\* a + b for two integers in digits.
AddInt(a, b) ==
    IF b = <<>> THEN a
    ELSE IF a = <<>> THEN b
    ELSE StripLeadingZeros(AddDigits(PadLeft(a, Max(Len(a), Len(b))),
                                     PadLeft(b, Max(Len(a), Len(b))), 0))

\* a times the digit d.
TimesDigit(a, d) ==
    IF d = 0 THEN <<>>
    ELSE AddInt(AddInt(IF d % 2 = 1 THEN a ELSE <<>>,
                       IF (d \div 2) % 2 = 1 THEN Twice(a, 0) ELSE <<>>),
                AddInt(IF (d \div 4) % 2 = 1 THEN Twice(Twice(a, 0), 0) ELSE <<>>,
                       IF d >= 8 THEN Twice(Twice(Twice(a, 0), 0), 0) ELSE <<>>))

\* a times b for two integers in digits; a has no leading zeros and b has digits.
\* The halves of b are multiplied on their own.
RECURSIVE MulDigits(_, _)
MulDigits(a, b) ==
    IF Len(b) = 1 THEN TimesDigit(a, b[1])
    ELSE AddInt(StripLeadingZeros(MulDigits(a, SubSeq(b, 1, Len(b) \div 2))
                                  \o Rep(0, Len(b) - Len(b) \div 2)),
                MulDigits(a, SubSeq(b, Len(b) \div 2 + 1, Len(b))))

\* a * b of two finite numbers, exactly.
Product(a, b) ==
    IF IsZero(a) \/ IsZero(b) THEN Num(a.neg # b.neg, <<>>, <<>>)
    ELSE IF Len(a.ip) + Len(a.fp) >= Len(b.ip) + Len(b.fp)
    THEN FromDigits(a.neg # b.neg,
                    PadLeft(MulDigits(StripLeadingZeros(a.ip \o a.fp), b.ip \o b.fp),
                            Len(a.fp) + Len(b.fp)),
                    Len(a.fp) + Len(b.fp))
    ELSE FromDigits(a.neg # b.neg,
                    PadLeft(MulDigits(StripLeadingZeros(b.ip \o b.fp), a.ip \o a.fp),
                            Len(a.fp) + Len(b.fp)),
                    Len(a.fp) + Len(b.fp))

\* a * b of two doubles: the double nearest to the product; 0 * Infinity is NaN.
Times(a, b) ==
    IF IsNaN(a) \/ IsNaN(b) THEN NaN
    ELSE IF IsFinite(a) /\ IsFinite(b) THEN DoubleOf(Product(a, b))
    ELSE IF (IsFinite(a) /\ IsZero(a)) \/ (IsFinite(b) /\ IsZero(b)) THEN NaN
    ELSE Infinity(a.neg # b.neg)

\* A tolerance of 1e-11.
LooseTolerance == DoubleOf(Num(FALSE, <<>>, Rep(0, 10) \o <<1>>))

\* The tolerance of floatToWire: the double 1e-12.
Tolerance == DoubleOf(Num(FALSE, <<>>, Rep(0, 11) \o <<1>>))

DigitChar(d) == HexDigits[d + 1]

DigitText(ds) == [i \in 1..Len(ds) |-> DigitChar(ds[i])]

IsDigitChar(c) == \E i \in 1..10 : HexDigits[i] = c

\* The decimal digits of a natural number below 1000 (an exponent).
NatDigits(n) ==
    IF n < 10 THEN <<n>>
    ELSE IF n < 100 THEN <<n \div 10, n % 10>>
    ELSE <<n \div 100, (n \div 10) % 10, n % 10>>

Sign(neg) == IF neg THEN <<"-">> ELSE <<>>

\* Exponent notation of the significant digits ds with decimal exponent e: d.ddde+N.
ExpNotation(ds, e) ==
    <<DigitChar(ds[1])>>
    \o (IF Len(ds) > 1 THEN <<".">> \o DigitText(Tail(ds)) ELSE <<>>)
    \o (IF e < 0 THEN <<"e", "-">> \o DigitText(NatDigits(0 - e))
        ELSE <<"e", "+">> \o DigitText(NatDigits(e)))

S_Infinity == <<"I", "n", "f", "i", "n", "i", "t", "y">>

S_NaN == <<"N", "a", "N">>

\* The integer ds, of at least k digits, cut to k significant digits, and the next
\* integer of k significant digits above it.
CutDown(ds, k) == SubSeq(ds, 1, k) \o Rep(0, Len(ds) - k)

CutUp(ds, k) == IncDigits(SubSeq(ds, 1, k)) \o Rep(0, Len(ds) - k)

\* The integer c denotes the double with the integer digits ds.
DenotesDouble(c, ds) == DoubleOf(Num(FALSE, c, <<>>)) = Num(FALSE, ds, <<>>)

\* c is nearer to ds than the integer b above it is, or as near with an even last
\* significant digit.
NearerBelow(c, b, ds, k) ==
    \/ ~GreaterEq(AbsDiff(Num(FALSE, c, <<>>), Num(FALSE, ds, <<>>)),
                  AbsDiff(Num(FALSE, b, <<>>), Num(FALSE, ds, <<>>)))
    \/ /\ AbsDiff(Num(FALSE, c, <<>>), Num(FALSE, ds, <<>>))
            = AbsDiff(Num(FALSE, b, <<>>), Num(FALSE, ds, <<>>))
       /\ c[k] % 2 = 0

\* The integer of the fewest significant digits, k or more, that denotes the double
\* with the integer digits ds; of two such integers the one nearer to the double.
RECURSIVE ShortestFrom(_, _)
ShortestFrom(ds, k) ==
    IF k >= Len(ds) THEN ds
    ELSE IF DenotesDouble(CutDown(ds, k), ds)
    THEN IF DenotesDouble(CutUp(ds, k), ds)
              /\ ~NearerBelow(CutDown(ds, k), CutUp(ds, k), ds, k)
         THEN CutUp(ds, k)
         ELSE CutDown(ds, k)
    ELSE IF DenotesDouble(CutUp(ds, k), ds) THEN CutUp(ds, k)
    ELSE ShortestFrom(ds, k + 1)

\* Number::toString of a double of magnitude 1e21 or more, an integer: the fewest
\* significant digits that denote the double, in exponent notation.
NumberToStringOf(neg, c) == Sign(neg) \o ExpNotation(StripTrailingZeros(c), Len(c) - 1)

NumberToString(x) == NumberToStringOf(x.neg, ShortestFrom(DoubleOf(x).ip, 1))

\* The integer n for which n / 10^8 is nearest to ip.f, a tie going up, in at least
\* 9 digits; f holds at least 9 fraction digits.
NearestFixed(ip, f) ==
    PadLeft(IF f[9] >= 5 THEN IncDigits(ip \o SubSeq(f, 1, 8)) ELSE ip \o SubSeq(f, 1, 8), 9)

\* The value toFixed rounds is the double, not the digits it was written with.  The
\* double of x lies within half a unit in the last place of x, under 10^7 less than
\* 1e-9: where x is written with at most 8 fraction digits, the 8 fraction digits
\* nearest to the double are those of x.
FixedOperand(x) ==
    IF IsFinite(x) /\ Len(x.ip) <= 7 /\ Len(x.fp) <= 8 THEN x ELSE DoubleOf(x)

RoundedOf(d) == NearestFixed(d.ip, PadRight(d.fp, 9))

\* n / 10^8 written with its 8 fraction digits.
FixedText(n) ==
    DigitText(SubSeq(n, 1, Len(n) - 8)) \o <<".">> \o DigitText(SubSeq(n, Len(n) - 7, Len(n)))

\* x.toFixed(8), d being the operand: NaN and Infinity are written by name, a
\* double of 1e21 or more as Number::toString writes it.
toFixed8Of(x, d) ==
    IF IsNaN(d) THEN S_NaN
    ELSE IF ~IsFinite(d) THEN Sign(d.neg) \o S_Infinity
    ELSE IF Len(d.ip) >= 22 THEN NumberToString(x)
    ELSE Sign(d.neg /\ ~IsZero(d)) \o FixedText(RoundedOf(d))

\* Number.prototype.toFixed(8): below 1e21 the exact value of the double is rounded
\* to 8 fraction digits, a tie going up, and written with exactly 8 fraction digits;
\* the sign is written for every x < 0, also when the digits are all zero; negative
\* zero has none.
toFixed8(x) == toFixed8Of(x, FixedOperand(x))

\* The longest prefix of s made of decimal digits.
RECURSIVE DigitPrefix(_)
DigitPrefix(s) ==
    IF s # <<>> /\ IsDigitChar(Head(s)) THEN <<Head(s)>> \o DigitPrefix(Tail(s)) ELSE <<>>

DigitVals(t) == [i \in 1..Len(t) |-> HexVal(t[i])]

RECURSIVE NatValue(_)
NatValue(ds) == IF ds = <<>> THEN 0 ELSE 10 * NatValue(SubSeq(ds, 1, Len(ds) - 1)) + ds[Len(ds)]

\* ip.f times 10^e for e >= 0; f holds at least e digits.
ShiftUp(neg, ip, f, e) == Normal(neg, ip \o SubSeq(f, 1, e), Drop(f, e))

\* i.fp divided by 10^n for n >= 0; i holds at least n digits.
ShiftDown(neg, i, fp, n) ==
    Normal(neg, SubSeq(i, 1, Len(i) - n), SubSeq(i, Len(i) - n + 1, Len(i)) \o fp)

\* ip.fp times 10^e, as a number.
ShiftDecimal(neg, ip, fp, e) ==
    IF e >= 0 THEN ShiftUp(neg, ip, PadRight(fp, e), e)
    ELSE ShiftDown(neg, PadLeft(ip, 0 - e), fp, 0 - e)

\* The exponent a numeric text ends with: nothing, or e and a signed number.
ExponentOf(s) ==
    IF Len(s) < 2 \/ Head(s) # "e" THEN 0
    ELSE IF s[2] = "-" THEN 0 - NatValue(DigitVals(DigitPrefix(Drop(s, 2))))
    ELSE IF s[2] = "+" THEN NatValue(DigitVals(DigitPrefix(Drop(s, 2))))
    ELSE NatValue(DigitVals(DigitPrefix(Tail(s))))

\* The number with integer digits ipT whose text goes on with s: a fraction, then an
\* exponent.
ParseFraction(neg, ipT, s) ==
    IF s # <<>> /\ Head(s) = "."
    THEN ShiftDecimal(neg, DigitVals(ipT), DigitVals(DigitPrefix(Tail(s))),
                      ExponentOf(Drop(s, 1 + Len(DigitPrefix(Tail(s))))))
    ELSE ShiftDecimal(neg, DigitVals(ipT), <<>>, ExponentOf(s))

ParseUnsigned(neg, s) == ParseFraction(neg, DigitPrefix(s), Drop(s, Len(DigitPrefix(s))))

\* The number a numeric text denotes: an optional minus sign, integer digits, an
\* optional fraction, an optional exponent.  Both parseFloat and the Decimal
\* constructor read the texts toFixed produces this way.
ParseNumber(s) ==
    IF s = S_NaN THEN NaN
    ELSE IF s = S_Infinity THEN Infinity(FALSE)
    ELSE IF s = <<"-">> \o S_Infinity THEN Infinity(TRUE)
    ELSE IF s # <<>> /\ Head(s) = "-" THEN ParseUnsigned(TRUE, Tail(s))
    ELSE ParseUnsigned(FALSE, s)

parseFloat(s) == ParseNumber(s)

RECURSIVE LeadingZeros(_)
LeadingZeros(ds) == IF ds # <<>> /\ Head(ds) = 0 THEN 1 + LeadingZeros(Tail(ds)) ELSE 0

\* Plain notation of the significant digits ds with decimal exponent e.
PlainNotation(ds, e) ==
    IF e < 0 THEN <<"0", ".">> \o Rep("0", 0 - e - 1) \o DigitText(ds)
    ELSE IF Len(ds) <= e + 1 THEN DigitText(ds) \o Rep("0", e + 1 - Len(ds))
    ELSE DigitText(SubSeq(ds, 1, e + 1)) \o <<".">> \o DigitText(SubSeq(ds, e + 2, Len(ds)))

\* Decimal.prototype.toString with the default configuration of decimal.js
\* (toExpNeg -7, toExpPos 21): exponent notation when the decimal exponent is -7
\* or less or 21 or more, plain notation otherwise.
FormatDigits(ds, e) ==
    IF e <= -7 \/ e >= 21 THEN ExpNotation(ds, e) ELSE PlainNotation(ds, e)

\* The decimal exponent of the first significant digit of a number that is not zero.
Exponent10(x) == IF x.ip # <<>> THEN Len(x.ip) - 1 ELSE 0 - (LeadingZeros(x.fp) + 1)

\* toString of the Decimal x: zero is "0" whatever its sign.
FormatDecimal(x) ==
    IF IsNaN(x) THEN S_NaN
    ELSE IF ~IsFinite(x) THEN Sign(x.neg) \o S_Infinity
    ELSE IF IsZero(x) THEN <<"0">>
    ELSE Sign(x.neg)
         \o FormatDigits(StripLeadingZeros(StripTrailingZeros(x.ip \o x.fp)), Exponent10(x))

\* new Decimal(text).toString()
DecimalToString(s) == FormatDecimal(ParseNumber(s))

\* Math.abs(a - b) of two doubles: the double nearest to the difference; Infinity
\* less Infinity is NaN.
AbsDiffOf(a, b) ==
    IF IsNaN(a) \/ IsNaN(b) THEN NaN
    ELSE IF IsFinite(a) /\ IsFinite(b) THEN DoubleOf(AbsDiff(a, b))
    ELSE IF ~IsFinite(a) /\ ~IsFinite(b) /\ a.neg = b.neg THEN NaN
    ELSE Infinity(FALSE)

\* Math.abs(a - b) of two numbers.  The same decimal twice is the same double
\* twice, a finite one when the decimal is below 10^308.
DoubleAbsDiff(a, b) ==
    IF a = b /\ IsFinite(a) /\ Len(a.ip) <= 308 THEN Num(FALSE, <<>>, <<>>)
    ELSE AbsDiffOf(DoubleOf(a), DoubleOf(b))

\* floatToWire after its first line: rounded is x.toFixed(8).
floatToWireOf(x, rounded) ==
    IF AtLeast(DoubleAbsDiff(parseFloat(rounded), x), Tolerance)
    THEN Err("floatToWire causes rounding")
    ELSE IF rounded = <<"-", "0">> THEN Ok(<<"0">>)
    ELSE Ok(DecimalToString(rounded))

\* floatToWire (the same text in the signing module and in the order example).
floatToWire(x) == floatToWireOf(x, toFixed8(x))

\* Math.round: the nearest integer, the one toward +Infinity on a tie; the sign
\* of x stays, so rounding a negative fraction to zero gives negative zero.
MathRound(x) ==
    IF ~IsFinite(x) THEN x
    ELSE Normal(x.neg,
                IF x.fp # <<>> /\ x.fp[1] >= 5 /\ (x.neg => x.fp # <<5>>) THEN IncDigits(x.ip)
                ELSE x.ip,
                <<>>)

\* The double 1e-3.
IntTolerance == DoubleOf(Num(FALSE, <<>>, <<0, 0, 1>>))

\* floatToInt after its first line: withDecimals is x * Math.pow(10, power) and
\* rounded is Math.round(withDecimals); the tolerance is 1e-3.
floatToIntOf(withDecimals, rounded) ==
    IF AtLeast(DoubleAbsDiff(rounded, withDecimals), IntTolerance)
    THEN Err("floatToInt causes rounding")
    ELSE Ok(rounded)

\* m, or m + 1 when the fraction f is not zero.
Ceiling(m, f) == IF StripTrailingZeros(f) # <<>> THEN IncDigits(m) ELSE m

\* The two doubles that enclose a scaled value that is not negative: the largest
\* one not above it and the smallest one not below it.
EnclosingAt(v) ==
    { DoubleAt(FALSE, IntDigits(v.ls, v.nfl), v.s),
      DoubleAt(FALSE, Ceiling(IntDigits(v.ls, v.nfl), FracDigits(v.ls, v.nfl)), v.s) }

\* The doubles that enclose x, which is not negative: x alone when it is a double.
Enclosing(x) ==
    IF x.fp = <<>> /\ Len(x.ip) <= 15 THEN {x} ELSE EnclosingAt(ScaledDigits(x.ip, x.fp))

\* What Math.pow(10, power) may return.  The language leaves the value to the
\* engine as an approximation of 10^power, and engines differ in the last bit: the
\* result is one of the two doubles that enclose 10^power, and not always the
\* nearer one.  From 10^0 to 10^22 the power of ten is a double and is the result;
\* 10^309 is above every finite double.
Pow10(power) ==
    IF power >= 309 THEN {Infinity(FALSE)}
    ELSE Enclosing(ShiftDecimal(FALSE, <<1>>, <<>>, power))

\* What d * Math.pow(10, power) may be for the double d.
TimesPow10(d, power) == { Times(d, p) : p \in Pow10(power) }

floatToIntFrom(withDecimals) == floatToIntOf(withDecimals, MathRound(withDecimals))

\* What floatToInt(x, power) may return or throw: one outcome for each value of
\* Math.pow(10, power), a single one for the powers from 0 to 22.
floatToInt(x, power) == { floatToIntFrom(w) : w \in TimesPow10(DoubleOf(x), power) }

\* 10^power for a power from 0 to 22, the value of Math.pow(10, power) there.
ExactPow10(power) == Num(FALSE, <<1>> \o Rep(0, power), <<>>)

\* floatToInt(x, 8).
floatToIntForHashing(x) == floatToIntFrom(Times(DoubleOf(x), ExactPow10(8)))

\* floatToInt(x, 6).
floatToUsdInt(x) == floatToIntFrom(Times(DoubleOf(x), ExactPow10(6)))

---------------------------------------------------------------------------
(* The numbers the codec is applied to: finite decimals, sign x mantissa x *)
(* 10^e and numbers at the edges of the conversions.  A number the program *)
(* is called with is the double of the decimal it is written as.           *)

MaxNegExp == 13
MaxPosExp == 22

Mantissas ==
    { <<0>>, <<1>>, <<2>>, <<5>>, <<9>>, <<1, 1>>, <<1, 2>>, <<1, 5>>, <<4, 9>>, <<5, 1>>,
      <<9, 5>>, <<9, 9>>, <<1, 0, 1>>,
      <<1, 2, 3, 4, 5, 6, 7, 8, 5>>, <<1, 2, 3, 4, 5, 6, 7, 8, 9>>,
      <<9, 9, 9, 9, 9, 9, 9, 9>>, <<9, 9, 9, 9, 9, 9, 9, 9, 5>>,
      <<1, 0, 0, 0, 0, 0, 0, 0, 1>>,
      <<1, 2, 3, 4, 5, 6, 7, 8, 0, 0, 0, 0, 1>>, <<1, 2, 3, 4, 5, 6, 7, 8, 9, 9, 9, 9, 9>>,
      <<1, 2, 3, 4, 5, 6, 7, 8, 0, 0, 0, 1, 1>>,
      <<1, 2, 3, 4, 5, 6, 7, 8, 0, 0, 0, 0, 0, 9>> }

\* Numbers at the ties of toFixed(8), at the tolerance of floatToWire, from 2^53
\* up, around 1e21 where toFixed changes to exponent notation (written with more
\* digits than their double needs), and below 2^-1022, as <<integer digits,
\* fraction digits>>.
EdgeDigits ==
    { <<<<>>, <<1, 0, 0, 0, 0, 0, 0, 0, 0, 0, 0, 1>>>>,
      <<<<>>, <<0, 0, 0, 0, 0, 0, 0, 1, 0, 0, 0, 1>>>>,
      <<<<>>, <<1, 2, 3, 4, 5, 6, 7, 8, 9, 9, 9, 9>>>>,
      <<<<1, 2, 3>>, <<0, 0, 0, 0, 0, 0, 0, 0, 0, 0, 0, 1>>>>,
      <<<<1>>, <<0, 0, 0, 0, 0, 0, 0, 0, 0, 0, 0, 1>>>>,
      <<<<>>, <<0, 0, 0, 0, 0, 0, 0, 1, 5>>>>,
      <<<<>>, <<0, 0, 0, 0, 0, 0, 0, 2, 5>>>>,
      <<<<1>>, <<0, 0, 0, 0, 0, 0, 0, 0, 5>>>>,
      <<<<9, 9>>, <<9, 9, 9, 9, 9, 9, 9, 9, 5>>>>,
      <<<<>>, <<0, 0, 1, 9, 5, 3, 1, 2, 5>>>>,
      <<<<>>, <<9, 9, 9, 9, 9, 9, 9, 9, 5>>>>,
      <<<<>>, <<0, 0, 0, 0, 0, 0, 0, 3, 5>>>>,
      <<<<1, 2, 3, 4, 5, 6>>, <<7>>>>,
      <<<<1, 2, 3, 4, 5, 6, 7, 8>>, <<1, 2, 3, 4, 5, 6, 7, 8>>>>,
      <<<<1, 2, 3, 4, 5, 6, 7, 8, 9, 0, 1, 2, 3, 4, 5, 6, 8, 0, 0, 0, 0>>, <<>>>>,
      <<<<9, 9, 9, 9, 9, 9, 9, 9, 9, 9, 9, 9, 9, 9, 9, 9, 0, 0, 0, 0, 0>>, <<>>>>,
      <<<<9, 0, 0, 7, 1, 9, 9, 2, 5, 4, 7, 4, 0, 9, 9, 3>>, <<>>>>,
      <<<<>>, <<3, 0, 0, 0, 0, 0, 0, 0, 0, 0, 0, 0, 0, 0, 0, 0, 4>>>>,
      <<Rep(9, 21), <<>>>>,
      <<<<9, 9, 9, 9, 9, 9, 9, 9, 9, 9, 9, 9, 9, 9, 9, 9, 3, 4, 4, 6, 3>>, <<>>>>,
      <<<<1, 2, 3, 4, 5, 6, 7, 8, 9, 0, 1, 2, 3, 4, 5, 6, 7, 8, 9, 0, 1, 2>>, <<>>>>,
      <<<<1, 1, 8, 0, 5, 9, 1, 6, 2, 0, 7, 1, 7, 4, 1, 1, 3, 0, 3, 4, 2, 4>>, <<>>>>,
      <<<<1>> \o Rep(0, 21), <<5>>>>,
      <<<<9, 9, 9, 9, 9, 9, 9, 9, 9, 9, 9, 9, 9, 9, 9, 9, 1, 6, 1, 1, 3, 9, 2>>, <<>>>>,
      <<<<>>, Rep(0, 323) \o <<5>>>>,
      <<<<>>, Rep(0, 319) \o <<1>>>> }

FloatInputs ==
    { ShiftDecimal(neg, m, <<>>, e) :
          neg \in BOOLEAN, m \in Mantissas, e \in (0 - MaxNegExp)..MaxPosExp }
    \cup { Num(neg, d[1], d[2]) : neg \in BOOLEAN, d \in EdgeDigits }

\* The powers floatToInt is applied with on every number: those of floatToUsdInt
\* and of floatToIntForHashing, and two smaller ones.
IntPowers == {0, 2, 6, 8}

\* Numbers and powers at the tolerance of floatToInt, at the ties of Math.round,
\* whose product is not the double of the decimal product, whose power of ten is
\* no double (-1, -2, -5, 23, 25, 26, 29), so that Math.pow has two doubles to
\* choose from, and whose product is above every finite double.
IntEdgePairs ==
    { <<<<<<1>>, <<0, 0, 1>>>>, 0>>,
      <<<<<<1>>, <<9, 9, 9>>>>, 0>>,
      <<<<<<2>>, <<0, 0, 1>>>>, 0>>,
      <<<<<<1>>, <<0, 0, 0, 0, 0, 0, 0, 1, 0, 0, 1>>>>, 8>>,
      <<<<<<2>>, <<0, 0, 0, 0, 0, 0, 9, 9, 9>>>>, 6>>,
      <<<<<<>>, <<9, 9, 9>>>>, 0>>,
      <<<<<<>>, <<0, 0, 1>>>>, 0>>,
      <<<<<<1>>, <<0, 0, 0, 0, 0, 0, 1>>>>, 6>>,
      <<<<<<1, 2, 3, 4, 5, 6, 7>>, <<8, 5>>>>, 8>>,
      <<<<<<1, 2>>, <<3, 4, 5, 6, 7, 8, 9, 9, 9, 9, 9>>>>, 6>>,
      <<<<<<>>, <<5>>>>, 0>>,
      <<<<<<1>>, <<5>>>>, 0>>,
      <<<<<<2>>, <<5>>>>, 0>>,
      <<<<<<>>, <<0, 0, 0, 0, 0, 0, 0, 0, 4, 9>>>>, 8>>,
      <<<<<<1, 2, 3, 4, 5, 6, 7, 8, 9, 0, 1, 2, 3, 4, 5, 6, 8, 0, 0, 0, 0>>, <<>>>>, 0>>,
      <<<<<<9, 0, 0, 7, 1, 9, 9, 2, 5, 4, 7, 4, 0, 9, 9, 3>>, <<>>>>, 0>>,
      <<<<<<4, 5, 0, 3, 5, 9, 9, 6, 2, 7, 3, 7, 0, 4, 9, 5>>, <<5>>>>, 0>>,
      <<<<<<>>, <<1>>>>, 2>>,
      <<<<<<>>, <<2, 9>>>>, 2>>,
      <<<<<<1>>, <<1, 5>>>>, 2>>,
      <<<<<<1>>, <<0, 0, 5>>>>, 2>>,
      <<<<<<8>>, <<7>>>>, 2>>,
      <<<<<<3>>, <<>>>>, -1>>,
      <<<<<<3, 5>>, <<>>>>, -2>>,
      <<<<<<3>>, <<>>>>, 23>>,
      <<<<<<1>>, <<5>>>>, 25>>,
      <<<<<<3>>, <<>>>>, -5>>,
      <<<<<<3, 0, 0, 0, 0, 0>>, <<>>>>, -5>>,
      <<<<<<1>>, <<>>>>, 26>>,
      <<<<<<3>>, <<>>>>, 26>>,
      <<<<<<7>>, <<>>>>, 29>>,
      <<<<<<1>> \o Rep(0, 301), <<>>>>, 8>>,
      <<<<<<1>> \o Rep(0, 303), <<>>>>, 6>> }

\* The numbers floatToInt is applied to: those of at most 2 integer digits and 9
\* fraction digits.
IntNumbers == { x \in FloatInputs : Len(x.ip) <= 2 /\ Len(x.fp) <= 9 }

FloatToIntInputs ==
    (IntNumbers \X IntPowers)
    \cup { <<Num(neg, p[1][1], p[1][2]), p[2]>> : neg \in BOOLEAN, p \in IntEdgePairs }

---------------------------------------------------------------------------
(* Objects: keys in insertion order.                                       *)

HasKey(obj, key) == \E i \in 1..Len(obj.v) : obj.v[i][1] = key

\* obj[key]: undefined for a key the object does not have.
Get(obj, key) ==
    IF HasKey(obj, key)
    THEN obj.v[CHOOSE i \in 1..Len(obj.v) : obj.v[i][1] = key][2]
    ELSE Undef

Keys(obj) == [i \in 1..Len(obj.v) |-> obj.v[i][1]]

\* JavaScript truthiness of the values a request holds.
Truthy(x) ==
    CASE x.k = "null" -> FALSE
      [] x.k = "undefined" -> FALSE
      [] x.k = "bool" -> x.v
      [] x.k = "str" -> x.v # <<>>
      [] x.k = "int" -> x.v # 0
      [] x.k = "num" -> ~IsNaN(x.v) /\ (IsFinite(x.v) => ~IsZero(x.v))
      [] OTHER -> TRUE

\* The texts of the protocol.
S_limit == <<"l", "i", "m", "i", "t">>
S_trigger == <<"t", "r", "i", "g", "g", "e", "r">>
S_tif == <<"t", "i", "f">>
S_isMarket == <<"i", "s", "M", "a", "r", "k", "e", "t">>
S_triggerPx == <<"t", "r", "i", "g", "g", "e", "r", "P", "x">>
S_tpsl == <<"t", "p", "s", "l">>
S_type == <<"t", "y", "p", "e">>
S_orders == <<"o", "r", "d", "e", "r", "s">>
S_grouping == <<"g", "r", "o", "u", "p", "i", "n", "g">>
S_order == <<"o", "r", "d", "e", "r">>
S_na == <<"n", "a">>
S_Gtc == <<"G", "t", "c">>
S_Alo == <<"A", "l", "o">>
S_Ioc == <<"I", "o", "c">>
S_tp == <<"t", "p">>
S_sl == <<"s", "l">>

FNum(x) == [k |-> "num", v |-> x]       \* a JavaScript number of the codec

---------------------------------------------------------------------------
(* Cloid (the same class in the signing module and in the order example).  *)
(* A number handed to fromInt is [neg, frac, w]: its sign, whether it ends *)
(* in one half, and its integer part in 16-bit limbs.                      *)

LimbHex(w) ==
    <<HexDigits[(w \div 4096) + 1], HexDigits[((w \div 256) % 16) + 1],
      HexDigits[((w \div 16) % 16) + 1], HexDigits[(w % 16) + 1]>>

RECURSIVE LimbsHex(_)
LimbsHex(ws) == IF ws = <<>> THEN <<>> ELSE LimbHex(Head(ws)) \o LimbsHex(Tail(ws))

RECURSIVE StripZeroChars(_)
StripZeroChars(s) == IF Len(s) > 1 /\ Head(s) = "0" THEN StripZeroChars(Tail(s)) ELSE s

\* Number.prototype.toString(16).
toString16(n) ==
    (IF n.neg THEN <<"-">> ELSE <<>>)
    \o StripZeroChars(LimbsHex(n.w))
    \o (IF n.frac THEN <<".", "8">> ELSE <<>>)

\* String.prototype.padStart(n, '0').
padStart(s, n) == IF Len(s) >= n THEN s ELSE Rep("0", n - Len(s)) \o s

\* slice(2) of a text.
Slice2(s) == Drop(s, 2)

\* Cloid._validate
Cloid_validate(rawCloid) ==
    IF ~StartsWith(rawCloid, HexPrefix) THEN Err("cloid is not a hex string")
    ELSE IF Len(Slice2(rawCloid)) # 32 THEN Err("cloid is not 16 bytes")
    ELSE Ok(TRUE)

\* The constructor after _validate returned or threw.
Cloid_validated(rawCloid, v) == IF v.ok THEN Ok([k |-> "Cloid", rawCloid |-> rawCloid]) ELSE v

\* new Cloid(rawCloid): the object, or the error _validate throws.
Cloid_new(rawCloid) == Cloid_validated(rawCloid, Cloid_validate(rawCloid))

Cloid_fromInt(cloid) == Cloid_new(HexPrefix \o padStart(toString16(cloid), 32))

Cloid_fromStr(cloid) == Cloid_new(cloid)

Cloid_toRaw(c) == c.rawCloid

---------------------------------------------------------------------------
(* The order encoder.                                                      *)

\* The object of the trigger branch once floatToWire returned or threw.
triggerWire(trigger, triggerPx) ==
    IF ~triggerPx.ok THEN triggerPx
    ELSE Ok(Obj(<< <<S_trigger,
                     Obj(<< <<S_isMarket, Get(trigger, S_isMarket)>>,
                            <<S_triggerPx, T(triggerPx.val)>>,
                            <<S_tpsl, Get(trigger, S_tpsl)>> >>)>> >>))

\* The trigger branch of orderTypeToWire.
triggerToWire(trigger) == triggerWire(trigger, floatToWire(Get(trigger, S_triggerPx).v))

\* orderTypeToWire (the same text in the signing module and in the order example).
\* 'limit' in orderType holds for a key that is present with no value, throws
\* a TypeError for a primitive, and is false for an array or a class instance,
\* which have neither key.
orderTypeToWire(orderType) ==
    IF orderType.k \in {"null", "undefined", "bool", "str", "int", "num"}
    THEN Err("TypeError: not an object")
    ELSE IF orderType.k = "obj" /\ HasKey(orderType, S_limit)
    THEN Ok(Obj(<< <<S_limit, Get(orderType, S_limit)>> >>))
    ELSE IF orderType.k = "obj" /\ HasKey(orderType, S_trigger)
            /\ Truthy(Get(orderType, S_trigger))
    THEN triggerToWire(Get(orderType, S_trigger))
    ELSE Err("Invalid order type")

\* The key c written for every request, with whatever the cloid is.
WithCloidAlways(order, orderWire) ==
    Ok(Obj(orderWire \o << <<(<<"c">>),
                             IF Truthy(order.cloid) THEN T(Cloid_toRaw(order.cloid))
                             ELSE order.cloid>> >>))

\* if (order.cloid) orderWire.c = order.cloid.toRaw()
WithCloid(order, orderWire) ==
    IF Truthy(order.cloid)
    THEN Ok(Obj(orderWire \o << <<(<<"c">>), T(Cloid_toRaw(order.cloid))>> >>))
    ELSE Ok(Obj(orderWire))

\* The object literal once its properties p, s and t are evaluated: they are
\* evaluated in the order written, so the first one that throws decides the error.
OrderWireFrom(order, asset, p, s, t) ==
    IF ~p.ok THEN p
    ELSE IF ~s.ok THEN s
    ELSE IF ~t.ok THEN t
    ELSE WithCloid(order, << <<(<<"a">>), N(asset)>>, <<(<<"b">>), B(order.is_buy)>>,
                             <<(<<"p">>), T(p.val)>>, <<(<<"s">>), T(s.val)>>,
                             <<(<<"r">>), B(order.reduce_only)>>, <<(<<"t">>), t.val>> >>)

\* The body the two orderRequestToOrderWire share.
OrderWireOf(order, asset) ==
    OrderWireFrom(order, asset, floatToWire(order.limit_px), floatToWire(order.sz),
                  orderTypeToWire(order.order_type))

\* orderRequestToOrderWire of the signing module: the asset is an argument.
orderRequestToOrderWire(order, asset) == OrderWireOf(order, asset)

\* orderRequestToOrderWire of the order example: the asset is a field of the request.
orderRequestToOrderWireEx(order) == OrderWireOf(order, order.asset)

\* orderWiresToOrderAction (the same text in both).
orderWiresToOrderAction(orderWires) ==
    Obj(<< <<S_type, T(S_order)>>, <<S_orders, Arr(orderWires)>>, <<S_grouping, T(S_na)>> >>)

---------------------------------------------------------------------------
(* Signature normalisation.  A raw signature is the text the signing       *)
(* capability returned.                                                    *)

\* String.prototype.slice(-2)
SliceLast2(s) == IF Len(s) <= 2 THEN s ELSE SubSeq(s, Len(s) - 1, Len(s))

\* String.prototype.slice(from, to) with 0 <= from <= to, counted from 0.
Slice(s, from, to) ==
    IF from >= Len(s) THEN <<>>
    ELSE SubSeq(s, from + 1, IF to > Len(s) THEN Len(s) ELSE to)

Signature(r, s, v) == [r |-> r, s |-> s, v |-> v]

\* splitSig after the length check: vv is the last two characters.
splitSigV(sig, vv) ==
    IF vv # <<"1", "c">> /\ vv # <<"1", "b">> /\ vv # <<"0", "0">> /\ vv # <<"0", "1">>
    THEN Err("bad sig v")
    ELSE Ok(Signature(HexPrefix \o Slice(sig, 0, 64),
                      HexPrefix \o Slice(sig, 64, 128),
                      IF vv = <<"1", "b">> \/ vv = <<"0", "0">> THEN 27 ELSE 28))

\* splitSig after sig = sig.slice(2).
splitSigBody(sig) ==
    IF Len(sig) # 130 THEN Err("bad sig length") ELSE splitSigV(sig, SliceLast2(sig))

\* splitSig of Signing.tsx.
splitSig(sig) == splitSigBody(Slice2(sig))

\* isHexString of ethers: 0x and then whole bytes, in either case.
IsHexString(s) ==
    /\ (StartsWith(s, HexPrefix) \/ StartsWith(s, <<"0", "X">>))
    /\ Len(s) % 2 = 0
    /\ \A i \in 3..Len(s) : IsHexChar(s[i])

\* hexlify of ethers: 0x and two lowercase digits per byte.
hexlify(bytes) ==
    HexPrefix \o [i \in 1..(2 * Len(bytes)) |->
                     IF i % 2 = 1 THEN HexDigits[(bytes[(i + 1) \div 2] \div 16) + 1]
                     ELSE HexDigits[(bytes[i \div 2] % 16) + 1]]

\* Signature.getNormalizedV of ethers: 0 and 27 are 27, 1 and 28 are 28, a value
\* from 35 on is an EIP-155 v (odd is 27, even is 28), anything else is refused.
getNormalizedV(v) ==
    IF v = 0 \/ v = 27 THEN Ok(27)
    ELSE IF v = 1 \/ v = 28 THEN Ok(28)
    ELSE IF v < 35 THEN Err("invalid v")
    ELSE Ok(IF v % 2 = 1 THEN 27 ELSE 28)

\* The signature of 65 bytes once its last byte is normalised or refused.
SignatureOf65(bytes, v) ==
    IF ~v.ok THEN v
    ELSE Ok(Signature(hexlify(SubSeq(bytes, 1, 32)), hexlify(SubSeq(bytes, 33, 64)), v.val))

\* Signature.from on the bytes of the text: 65 bytes are r, s and v; 64 bytes are
\* the compact form, whose parity bit is the top bit of s.
SignatureFromBytes(bytes) ==
    IF Len(bytes) = 64
    THEN Ok(Signature(hexlify(SubSeq(bytes, 1, 32)),
                      hexlify(<<bytes[33] % 128>> \o SubSeq(bytes, 34, 64)),
                      IF bytes[33] >= 128 THEN 28 ELSE 27))
    ELSE IF Len(bytes) = 65
    THEN IF bytes[33] >= 128 THEN Err("non-canonical s")
         ELSE SignatureOf65(bytes, getNormalizedV(bytes[65]))
    ELSE Err("invalid raw signature length")

\* ethers.Signature.from(text) and the {r, s, v} signL1Action reads from it.
SignatureFrom(sig) ==
    IF ~IsHexString(sig) THEN Err("invalid BytesLike value")
    ELSE SignatureFromBytes(BufferFromHex(Slice2(sig)))

---------------------------------------------------------------------------
(* Inputs of the functions.                                                *)

\* Numbers of the encoder's requests: 0.001, 90000, 0.00000001, 0.123456785, -0 and 1.5.
Num_0_001 == Num(FALSE, <<>>, <<0, 0, 1>>)
Num_90000 == Num(FALSE, <<9, 0, 0, 0, 0>>, <<>>)
Num_1e_8 == Num(FALSE, <<>>, <<0, 0, 0, 0, 0, 0, 0, 1>>)
Num_0_123456785 == Num(FALSE, <<>>, <<1, 2, 3, 4, 5, 6, 7, 8, 5>>)
Num_NegZero == Num(TRUE, <<>>, <<>>)
Num_1_5 == Num(FALSE, <<1>>, <<5>>)

\* Nonces: 0, 1, a timestamp in milliseconds, 2^53 - 1, the largest double below
\* 2^64, 2^64, -1 and a timestamp and a half.
JsInt(ws) == [neg |-> FALSE, frac |-> FALSE, w |-> ws]

Nonces ==
    { JsInt(<<0, 0, 0, 0>>), JsInt(<<0, 0, 0, 1>>), JsInt(<<0, 396, 12345, 54321>>),
      JsInt(<<31, 65535, 65535, 65535>>), JsInt(<<65535, 65535, 65535, 63488>>),
      JsInt(<<1, 0, 0, 0, 0>>),
      [neg |-> TRUE, frac |-> FALSE, w |-> <<0, 0, 0, 1>>],
      [neg |-> FALSE, frac |-> TRUE, w |-> <<0, 396, 12345, 54321>>] }

InUint64(n) == ~n.neg /\ ~n.frac /\ Len(n.w) = 4

\* Routing addresses: 20 bytes of hex digits in either case, bare or after 0x.
MixedHex40 == [i \in 1..40 |-> IF i % 4 = 1 THEN "A" ELSE IF i % 4 = 2 THEN "b"
                                ELSE IF i % 4 = 3 THEN "0" ELSE "9"]

WellFormedAddresses ==
    { HexPrefix \o Rep("0", 40), Rep("a", 40), HexPrefix \o MixedHex40, MixedHex40,
      HexPrefix \o Rep("F", 40) }

\* Texts that are not 40 hex digits after the optional 0x: empty, short, of odd
\* length, long, holding a character that is no hex digit, with a prefix 0X.
MalformedAddresses ==
    { <<>>, HexPrefix, HexPrefix \o <<"1", "2", "3", "4">>, HexPrefix \o Rep("a", 39),
      HexPrefix \o Rep("a", 42), Rep("a", 44), HexPrefix \o Rep("a", 38) \o <<"z", "z">>,
      <<"z", "z">> \o Rep("a", 38), <<"0", "X">> \o Rep("a", 40) }

IsWellFormedAddress(a) ==
    LET hex == IF StartsWith(a, HexPrefix) THEN Drop(a, 2) ELSE a
    IN  Len(hex) = 40 /\ \A i \in 1..40 : IsHexChar(hex[i])

Vaults == {Null} \cup {T(a) : a \in WellFormedAddresses \cup MalformedAddresses}

\* Order types: the well-formed ones and the other shapes.
LimitType(tif) == Obj(<< <<S_limit, Obj(<< <<S_tif, T(tif)>> >>)>> >>)

TriggerBody(px, isMarket, tpsl) ==
    Obj(<< <<S_triggerPx, FNum(px)>>, <<S_isMarket, B(isMarket)>>, <<S_tpsl, T(tpsl)>> >>)

TriggerType(px, isMarket, tpsl) == Obj(<< <<S_trigger, TriggerBody(px, isMarket, tpsl)>> >>)

LimitTypes == {LimitType(tif) : tif \in {S_Gtc, S_Alo, S_Ioc}}

TriggerTypes ==
    { TriggerType(px, m, tpsl) :
        px \in {Num_90000, Num_0_001, Num_1e_8, Num_0_123456785, Num_NegZero},
        m \in BOOLEAN, tpsl \in {S_tp, S_sl} }

OtherOrderTypes ==
    { Obj(<<>>),
      Obj(<< <<S_limit, Undef>> >>),
      Obj(<< <<S_limit, Null>> >>),
      Obj(<< <<S_trigger, Undef>> >>),
      Obj(<< <<S_trigger, Null>> >>),
      Obj(<< <<S_limit, Undef>>, <<S_trigger, TriggerBody(Num_90000, TRUE, S_tp)>> >>),
      Obj(<< <<S_tif, T(S_Gtc)>> >>),
      Obj(<< <<S_trigger, T(<<>>)>> >>),
      Arr(<<>>),
      Null }

OrderTypes == LimitTypes \cup TriggerTypes \cup OtherOrderTypes

\* Client order ids of requests.
CloidOf(raw) == [k |-> "Cloid", rawCloid |-> raw]

Cloid_1 == CloidOf(HexPrefix \o Rep("0", 31) \o <<"1">>)

\* Order requests.
OrderRequest(asset, is_buy, sz, limit_px, order_type, reduce_only, cloid) ==
    [asset |-> asset, is_buy |-> is_buy, sz |-> sz, limit_px |-> limit_px,
     order_type |-> order_type, reduce_only |-> reduce_only, cloid |-> cloid]

\* The request of signingTest and of orderExample.
ScriptOrder == OrderRequest(0, TRUE, Num_0_001, Num_90000, LimitType(S_Gtc), FALSE, Undef)

OrderRequests ==
    { OrderRequest(a, b, sz, px, ot, r, c) :
        a \in {0, 300}, b \in BOOLEAN,
        sz \in {Num_0_001, Num_1e_8, Num_0_123456785},
        px \in {Num_90000, Num_1_5, Num_0_123456785},
        ot \in { LimitType(S_Gtc), TriggerType(Num_90000, TRUE, S_tp),
                 TriggerType(Num_0_123456785, FALSE, S_sl),
                 Obj(<< <<S_limit, Undef>> >>), Obj(<<>>) },
        r \in BOOLEAN, c \in {Undef, Null, Cloid_1} }

\* Actions handed to the hashers: none, the script's order, a trigger order with a
\* client id, and both orders together.
WireOf(order) == OrderWireOf(order, order.asset).val

HashActions ==
    { Obj(<<>>),
      orderWiresToOrderAction(<<WireOf(ScriptOrder)>>),
      orderWiresToOrderAction(
          <<WireOf(OrderRequest(300, FALSE, Num_1_5, Num_90000,
                                TriggerType(Num_0_001, TRUE, S_sl), TRUE, Cloid_1))>>),
      orderWiresToOrderAction(
          <<WireOf(ScriptOrder),
            WireOf(OrderRequest(5, TRUE, Num_0_001, Num_1_5, LimitType(S_Ioc), FALSE, Null))>>) }

\* Raw signatures: r, s and a recovery byte written with two of these characters,
\* texts of other lengths, 132 hex digits without 0x, and 0x with characters that
\* are no hex digits.
SigR == {Rep("a", 64), [i \in 1..64 |-> IF i % 2 = 1 THEN "1" ELSE "2"]}
SigS == {Rep("1", 64)}
VChars == {"0", "1", "2", "3", "b", "c", "B", "C", "f"}

RawSigs65 == { HexPrefix \o r \o s \o <<a, b>> : r \in SigR, s \in SigS, a \in VChars, b \in VChars }

RawSigsOther ==
    { HexPrefix,
      HexPrefix \o Rep("a", 64) \o Rep("1", 64),
      HexPrefix \o Rep("a", 64) \o Rep("1", 64) \o <<"1">>,
      HexPrefix \o Rep("a", 64) \o Rep("1", 64) \o <<"1", "b", "0", "0">>,
      Rep("a", 64) \o Rep("1", 64) \o <<"1", "b">>,
      Rep("a", 66) \o Rep("1", 64) \o <<"1", "b">>,
      HexPrefix \o Rep("z", 128) \o <<"1", "b">>,
      <<"0", "X">> \o Rep("A", 64) \o Rep("1", 64) \o <<"1", "B">> }

RawSigs == RawSigs65 \cup RawSigsOther

\* Texts handed to Cloid.fromStr and to the constructor.
CloidTexts ==
    { HexPrefix \o Rep("0", 31) \o <<"1">>,
      HexPrefix \o Rep("f", 32),
      HexPrefix \o [i \in 1..32 |-> HexDigits[((i * 7) % 16) + 1]],
      HexPrefix \o Rep("F", 32),
      HexPrefix \o Rep("a", 31) \o <<"B">>,
      HexPrefix \o Rep("z", 32),
      HexPrefix \o Rep("0", 30) \o <<"-", "1">>,
      HexPrefix \o Rep(" ", 32),
      HexPrefix \o <<"1", "2", "3">>,
      HexPrefix \o Rep("a", 31),
      HexPrefix \o Rep("a", 33),
      HexPrefix,
      <<>>,
      [i \in 1..32 |-> <<"d", "e", "a", "d", "b", "e", "e", "f">>[((i - 1) % 8) + 1]],
      Rep("a", 34),
      <<"0", "X">> \o Rep("a", 32) }

\* Numbers handed to Cloid.fromInt: 0, 1, 255, 2^53 - 1, 2^127, 2^128 - 2^75, 2^128,
\* 2^140, -1, -255, 1.5 and 0.5.
CloidInts ==
    { JsInt(<<0>>), JsInt(<<1>>), JsInt(<<255>>), JsInt(<<31, 65535, 65535, 65535>>),
      JsInt(<<32768, 0, 0, 0, 0, 0, 0, 0>>), JsInt(<<65535, 65535, 65535, 63488, 0, 0, 0, 0>>),
      JsInt(<<1, 0, 0, 0, 0, 0, 0, 0, 0>>), JsInt(<<4096, 0, 0, 0, 0, 0, 0, 0, 0>>),
      [neg |-> TRUE, frac |-> FALSE, w |-> <<1>>],
      [neg |-> TRUE, frac |-> FALSE, w |-> <<255>>],
      [neg |-> FALSE, frac |-> TRUE, w |-> <<1>>],
      [neg |-> FALSE, frac |-> TRUE, w |-> <<0>>] }

---------------------------------------------------------------------------
(* The functions, one call at a time: a call is drawn with its arguments,  *)
(* and the action of its function applies the function to them.            *)

FlowsIdle ==
    /\ pc = <<>> /\ flow = <<>> /\ wire = <<>> /\ action = <<>> /\ digest = <<>>
    /\ signer = <<>> /\ outcome = <<>> /\ sent = <<>>

InitApi ==
    /\ \/ \E x \in FloatInputs : call = [op |-> "floatToWire", x |-> x]
       \/ \E xp \in FloatToIntInputs : call = [op |-> "floatToInt", x |-> xp[1], power |-> xp[2]]
       \/ \E xp \in FloatToIntInputs, f \in {"floatToUsdInt", "floatToIntForHashing"} :
              /\ xp[2] = (IF f = "floatToUsdInt" THEN 6 ELSE 8)
              /\ call = [op |-> f, x |-> xp[1]]
       \/ \E a \in HashActions, v \in Vaults, n \in Nonces, f \in {"actionHash", "hashAction"} :
              call = [op |-> f, action |-> a, vaultAddress |-> v, nonce |-> n]
       \/ \E sig \in RawSigs, f \in {"splitSig", "Signature.from"} : call = [op |-> f, sig |-> sig]
       \/ \E t \in CloidTexts, f \in {"Cloid.fromStr", "new Cloid"} :
              call = [op |-> f, cloid |-> t]
       \/ \E n \in CloidInts : call = [op |-> "Cloid.fromInt", cloid |-> n]
       \/ \E t \in OrderTypes : call = [op |-> "orderTypeToWire", orderType |-> t]
       \/ \E o \in OrderRequests, f \in {"orderRequestToOrderWire", "orderRequestToOrderWireEx"} :
              call = [op |-> f, order |-> o]
    /\ ret = Pending
    /\ FlowsIdle

Returns(op, result) ==
    /\ call.op = op
    /\ ret = Pending
    /\ ret' = result
    /\ UNCHANGED <<call, pc, flow, wire, action, digest, signer, outcome, sent>>

CallFloatToWire == call.op = "floatToWire" /\ Returns("floatToWire", floatToWire(call.x))

CallFloatToInt ==
    /\ call.op = "floatToInt"
    /\ \E r \in floatToInt(call.x, call.power) : Returns("floatToInt", r)

CallFloatToUsdInt ==
    call.op = "floatToUsdInt" /\ Returns("floatToUsdInt", floatToUsdInt(call.x))

CallFloatToIntForHashing ==
    /\ call.op = "floatToIntForHashing"
    /\ Returns("floatToIntForHashing", floatToIntForHashing(call.x))

CallActionHash ==
    /\ call.op = "actionHash"
    /\ Returns("actionHash", actionHash(call.action, call.vaultAddress, call.nonce))

CallHashAction ==
    /\ call.op = "hashAction"
    /\ Returns("hashAction", hashAction(call.action, call.vaultAddress, call.nonce))

CallSplitSig == call.op = "splitSig" /\ Returns("splitSig", splitSig(call.sig))

CallSignatureFrom ==
    call.op = "Signature.from" /\ Returns("Signature.from", SignatureFrom(call.sig))

CallCloidFromStr ==
    call.op = "Cloid.fromStr" /\ Returns("Cloid.fromStr", Cloid_fromStr(call.cloid))

CallCloidNew == call.op = "new Cloid" /\ Returns("new Cloid", Cloid_new(call.cloid))

CallCloidFromInt ==
    call.op = "Cloid.fromInt" /\ Returns("Cloid.fromInt", Cloid_fromInt(call.cloid))

CallOrderTypeToWire ==
    call.op = "orderTypeToWire" /\ Returns("orderTypeToWire", orderTypeToWire(call.orderType))

CallOrderRequestToOrderWire ==
    /\ call.op = "orderRequestToOrderWire"
    /\ Returns("orderRequestToOrderWire", orderRequestToOrderWire(call.order, call.order.asset))

CallOrderRequestToOrderWireEx ==
    /\ call.op = "orderRequestToOrderWireEx"
    /\ Returns("orderRequestToOrderWireEx", orderRequestToOrderWireEx(call.order))

NextApi ==
    \/ CallFloatToWire
    \/ CallFloatToInt
    \/ CallFloatToUsdInt
    \/ CallFloatToIntForHashing
    \/ CallActionHash
    \/ CallHashAction
    \/ CallSplitSig
    \/ CallSignatureFrom
    \/ CallCloidFromStr
    \/ CallCloidNew
    \/ CallCloidFromInt
    \/ CallOrderTypeToWire
    \/ CallOrderRequestToOrderWire
    \/ CallOrderRequestToOrderWireEx

SpecApi == InitApi /\ [][NextApi]_vars

\* The call has returned or thrown.
Returned == ret # Pending

---------------------------------------------------------------------------
(* The signing calls and the two scripts that use them.  A run holds one   *)
(* flow per call: pc, flow, wire, action, digest and outcome are indexed   *)
(* by the call, signer and sent are the logs of the signing capability and *)
(* of the transport.  A flow is the script with its constants as inputs:   *)
(* whether the key is set, the order request, the nonce, the routing       *)
(* address and the network.                                                *)

Calls == DOMAIN pc

\* IS_MAINNET of Signing.tsx.
IS_MAINNET == TRUE

\* The domain and the types both signing calls hand over with the phantom agent.
phantomDomain ==
    [name |-> "Exchange", version |-> "1", chainId |-> 1337,
     verifyingContract |-> HexPrefix \o Rep("0", 40)]

\* constructPhantomAgent, and the object literal of signStandardL1Action.
constructPhantomAgent(hash, isMainnet) ==
    [source |-> IF isMainnet THEN "a" ELSE "b", connectionId |-> hash]

\* What signTypedData is called with, and by which call.
TypedData(c, phantomAgent) ==
    [call |-> c, domain |-> phantomDomain, primaryType |-> "Agent", message |-> phantomAgent]

\* signTypedData called before the result of the hasher is looked at.
signTypedDataEager(log, c, h, isMainnet) ==
    Append(log, TypedData(c, constructPhantomAgent(IF h.ok THEN h.val ELSE None, isMainnet)))

\* The log of the signing capability after the synchronous part of a signing call
\* whose hasher returned or threw h: signTypedData is reached only when it returned.
signTypedData(log, c, h, isMainnet) ==
    IF h.ok THEN Append(log, TypedData(c, constructPhantomAgent(h.val, isMainnet))) ELSE log

\* The action written out with another size than the orderRequest of the script.
signingTestActionOtherSize(assetId) ==
    Obj(<< <<S_type, T(S_order)>>,
           <<S_orders,
             Arr(<< Obj(<< <<(<<"a">>), N(assetId)>>, <<(<<"b">>), B(TRUE)>>,
                           <<(<<"p">>), T(<<"9", "0", "0", "0", "0">>)>>,
                           <<(<<"s">>), T(<<"0", ".", "0", "0", "2">>)>>,
                           <<(<<"r">>), B(FALSE)>>,
                           <<(<<"t">>), LimitType(S_Gtc)>> >>) >>)>>,
           <<S_grouping, T(S_na)>> >>)

\* The order action signingTest writes out in its request.
signingTestAction(assetId) ==
    Obj(<< <<S_type, T(S_order)>>,
           <<S_orders,
             Arr(<< Obj(<< <<(<<"a">>), N(assetId)>>, <<(<<"b">>), B(TRUE)>>,
                           <<(<<"p">>), T(<<"9", "0", "0", "0", "0">>)>>,
                           <<(<<"s">>), T(<<"0", ".", "0", "0", "1">>)>>,
                           <<(<<"r">>), B(FALSE)>>,
                           <<(<<"t">>), LimitType(S_Gtc)>> >>) >>)>>,
           <<S_grouping, T(S_na)>> >>)

\* requestData of the scripts.
requestData(c, act, nonce, signature) ==
    [call |-> c, action |-> act, nonce |-> nonce, signature |-> signature]

\* The inputs of a flow.
Flow(script, key, order, nonce, vaultAddress, isMainnet) ==
    [script |-> script, key |-> key, order |-> order, nonce |-> nonce,
     vaultAddress |-> vaultAddress, isMainnet |-> isMainnet]

FlowOrders ==
    { ScriptOrder,
      OrderRequest(300, FALSE, Num_1_5, Num_90000, TriggerType(Num_0_001, TRUE, S_sl), TRUE, Cloid_1),
      OrderRequest(0, TRUE, Num_0_123456785, Num_90000, LimitType(S_Gtc), FALSE, Undef),
      OrderRequest(0, TRUE, Num_0_001, Num_90000, Obj(<<>>), FALSE, Null),
      OrderRequest(0, TRUE, Num_0_001, Num_90000,
                   TriggerType(Num_0_123456785, FALSE, S_tp), FALSE, Undef) }

\* A timestamp, 2^64, and a timestamp and a half.
FlowNonces ==
    { JsInt(<<0, 396, 12345, 54321>>), JsInt(<<1, 0, 0, 0, 0>>),
      [neg |-> FALSE, frac |-> TRUE, w |-> <<0, 396, 12345, 54321>>] }

FlowVaults ==
    { Null, T(HexPrefix \o MixedHex40), T(HexPrefix \o <<"1", "2", "3", "4">>),
      T(HexPrefix \o Rep("a", 42)) }

\* The flows of the two scripts.  signingTest writes the action of its request out
\* a second time, from the values of its orderRequest: its order is the one written
\* in the script.
FlowInputs ==
    { Flow("signingTest", k, ScriptOrder, n, v, m) :
        k \in BOOLEAN, n \in FlowNonces, v \in FlowVaults, m \in BOOLEAN }
    \cup
    { Flow("orderExample", k, o, n, v, IS_MAINNET) :
        k \in BOOLEAN, o \in FlowOrders, n \in FlowNonces, v \in FlowVaults }

\* What the signing capability answers: r, s and the recovery byte 1b, 1c, 00, 01,
\* 23 (35), 1B or 02, the compact form of 64 bytes, and a text that is too short.
WalletAnswers ==
    { HexPrefix \o Rep("a", 64) \o Rep("1", 64) \o vv :
        vv \in { <<"1", "b">>, <<"1", "c">>, <<"0", "0">>, <<"0", "1">>, <<"2", "3">>,
                 <<"1", "B">>, <<"0", "2">> } }
    \cup { HexPrefix \o Rep("a", 64) \o Rep("1", 64), HexPrefix \o Rep("a", 64) }

HarnessIdle == call = None /\ ret = None

Init ==
    /\ HarnessIdle
    /\ \E f \in FlowInputs : flow = <<f>>
    /\ pc = <<"start">>
    /\ wire = <<None>>
    /\ action = <<None>>
    /\ digest = <<None>>
    /\ outcome = <<None>>
    /\ signer = <<>>
    /\ sent = <<>>

\* What the encoding statements of a script leave behind: w is what
\* orderRequestToOrderWire returned or threw.
Encoded(w) ==
    IF w.ok
    THEN [pc |-> "encoded", wire |-> w.val, action |-> orderWiresToOrderAction(<<w.val>>),
          outcome |-> None]
    ELSE [pc |-> "done", wire |-> None, action |-> None, outcome |-> w]

\* The first statements of a script of call c ended as e says.
Encode(c, e) ==
    /\ pc[c] = "start"
    /\ pc' = [pc EXCEPT ![c] = e.pc]
    /\ wire' = [wire EXCEPT ![c] = e.wire]
    /\ action' = [action EXCEPT ![c] = e.action]
    /\ outcome' = [outcome EXCEPT ![c] = e.outcome]
    /\ UNCHANGED <<call, ret, flow, digest, signer, sent>>

\* signingTest.ts as it is loaded: the wallet of the key (ethers refuses a text that
\* is no key), the order wire and the order action.
signingTestLoad(c) ==
    /\ flow[c].script = "signingTest"
    /\ Encode(c, IF ~flow[c].key THEN Encoded(Err("invalid private key"))
                 ELSE Encoded(orderRequestToOrderWire(flow[c].order, flow[c].order.asset)))

\* orderExample up to its call of signStandardL1Action: the check of the key, the
\* order wire and the order action.
orderExampleEncode(c) ==
    /\ flow[c].script = "orderExample"
    /\ Encode(c, IF ~flow[c].key THEN Encoded(Err("PRIVATE_KEY is not set. Please configure it."))
                 ELSE Encoded(orderRequestToOrderWireEx(flow[c].order)))

\* A signing call that keeps its digest in one place for all calls.
SignCallShared(c, h, isMainnet) ==
    /\ pc[c] = "encoded"
    /\ pc' = [pc EXCEPT ![c] = IF h.ok THEN "awaiting" ELSE "done"]
    /\ digest' = [d \in Calls |-> IF h.ok THEN h.val ELSE None]
    /\ signer' = signTypedData(signer, c, h, isMainnet)
    /\ outcome' = [outcome EXCEPT ![c] = IF h.ok THEN None ELSE h]
    /\ UNCHANGED <<call, ret, flow, wire, action, sent>>

\* The synchronous part of a signing call of call c, whose hasher returned or threw
\* h: the digest goes into the phantom agent and signTypedData is called, or the
\* error of the hasher ends the call.
SignCall(c, h, isMainnet) ==
    /\ pc[c] = "encoded"
    /\ pc' = [pc EXCEPT ![c] = IF h.ok THEN "awaiting" ELSE "done"]
    /\ digest' = [digest EXCEPT ![c] = IF h.ok THEN h.val ELSE None]
    /\ signer' = signTypedData(signer, c, h, isMainnet)
    /\ outcome' = [outcome EXCEPT ![c] = IF h.ok THEN None ELSE h]
    /\ UNCHANGED <<call, ret, flow, wire, action, sent>>

\* signL1Action up to its await.
signL1Action(c) ==
    /\ flow[c].script = "signingTest"
    /\ SignCall(c, actionHash(action[c], flow[c].vaultAddress, flow[c].nonce), flow[c].isMainnet)

\* signStandardL1Action up to its await.
signStandardL1Action(c) ==
    /\ flow[c].script = "orderExample"
    /\ SignCall(c, hashAction(action[c], flow[c].vaultAddress, flow[c].nonce), IS_MAINNET)

\* A signing call of call c goes on after its await and returns or throws sig.
Resume(c, sig) ==
    /\ pc[c] = "awaiting"
    /\ pc' = [pc EXCEPT ![c] = IF sig.ok THEN "signed" ELSE "done"]
    /\ outcome' = [outcome EXCEPT ![c] = sig]
    /\ UNCHANGED <<call, ret, flow, wire, action, digest, signer, sent>>

\* signL1Action after signTypedData answered.
signL1ActionReturn(c) ==
    /\ flow[c].script = "signingTest"
    /\ \E raw \in WalletAnswers : Resume(c, SignatureFrom(raw))

\* signStandardL1Action after signTypedData answered.
signStandardL1ActionReturn(c) ==
    /\ flow[c].script = "orderExample"
    /\ \E raw \in WalletAnswers : Resume(c, splitSig(raw))

\* signTypedData rejects: the await throws in either signing call.
signTypedDataRejects(c) == Resume(c, Err("signTypedData rejected"))

\* The request of call c is handed to the transport.
Post(c, act) ==
    /\ pc[c] = "signed"
    /\ pc' = [pc EXCEPT ![c] = "posting"]
    /\ sent' = Append(sent, requestData(c, act, flow[c].nonce, outcome[c].val))
    /\ UNCHANGED <<call, ret, flow, wire, action, digest, signer, outcome>>

\* signingTest after signL1Action returned: the request holds the action written out.
signingTestPost(c) ==
    /\ flow[c].script = "signingTest"
    /\ Post(c, signingTestAction(flow[c].order.asset))

\* orderExample after signStandardL1Action returned: the request holds orderAction.
orderExamplePost(c) ==
    /\ flow[c].script = "orderExample"
    /\ Post(c, action[c])

\* axios.post answers or fails: the script ends.
postReturns(c) ==
    /\ pc[c] = "posting"
    /\ pc' = [pc EXCEPT ![c] = "done"]
    /\ UNCHANGED <<call, ret, flow, wire, action, digest, signer, outcome, sent>>

Next ==
    \/ \E c \in Calls : signingTestLoad(c)
    \/ \E c \in Calls : orderExampleEncode(c)
    \/ \E c \in Calls : signL1Action(c)
    \/ \E c \in Calls : signStandardL1Action(c)
    \/ \E c \in Calls : signL1ActionReturn(c)
    \/ \E c \in Calls : signStandardL1ActionReturn(c)
    \/ \E c \in Calls : signTypedDataRejects(c)
    \/ \E c \in Calls : signingTestPost(c)
    \/ \E c \in Calls : orderExamplePost(c)
    \/ \E c \in Calls : postReturns(c)

Spec == Init /\ [][Next]_vars

\* Two signing calls in flight at once.  The flows of both scripts: the order of
\* the scripts and, in orderExample, a trigger order with a cloid and a size that
\* cannot be rendered; a timestamp and 2^64 as nonce, no routing address and a
\* well-formed one, both networks.
PairInputs ==
    { Flow("signingTest", TRUE, ScriptOrder, JsInt(<<0, 396, 12345, 54321>>), Null, TRUE),
      Flow("signingTest", TRUE, ScriptOrder,
           JsInt(<<0, 396, 12345, 54321>>), T(HexPrefix \o MixedHex40), FALSE),
      Flow("signingTest", TRUE, ScriptOrder, JsInt(<<1, 0, 0, 0, 0>>), Null, TRUE),
      Flow("orderExample", TRUE, ScriptOrder, JsInt(<<0, 396, 12345, 54321>>), Null, IS_MAINNET),
      Flow("orderExample", TRUE,
           OrderRequest(300, FALSE, Num_1_5, Num_90000, TriggerType(Num_0_001, TRUE, S_sl),
                        TRUE, Cloid_1),
           JsInt(<<1, 0, 0, 0, 0>>), T(HexPrefix \o MixedHex40), IS_MAINNET),
      Flow("orderExample", TRUE,
           OrderRequest(0, TRUE, Num_0_123456785, Num_90000, LimitType(S_Gtc), FALSE, Undef),
           JsInt(<<0, 396, 12345, 54321>>), Null, IS_MAINNET) }

InitPair ==
    /\ HarnessIdle
    /\ \E f \in PairInputs, g \in PairInputs : flow = <<f, g>>
    /\ pc = <<"start", "start">>
    /\ wire = <<None, None>>
    /\ action = <<None, None>>
    /\ digest = <<None, None>>
    /\ outcome = <<None, None>>
    /\ signer = <<>>
    /\ sent = <<>>

SpecPair == InitPair /\ [][Next]_vars

---------------------------------------------------------------------------
(* Properties of the hashers.                                              *)

IsHashCall == Returned /\ call.op \in {"actionHash", "hashAction"}

\* The hasher the call names, applied to other arguments.
HashBy(op, act, vaultAddress, nonce) ==
    IF op = "actionHash" THEN actionHash(act, vaultAddress, nonce)
    ELSE hashAction(act, vaultAddress, nonce)

\* The 8 bytes of an unsigned 64-bit integer of four limbs, most significant first.
BigEndian64(w) ==
    [i \in 1..8 |-> IF i % 2 = 1 THEN w[(i + 1) \div 2] \div 256 ELSE w[i \div 2] % 256]

\* The 40 hex digits of a well-formed address.
AddressDigits(a) == IF StartsWith(a, HexPrefix) THEN SubSeq(a, 3, Len(a)) ELSE a

\* The 20 bytes of a well-formed address.
AddressBytes20(a) ==
    [i \in 1..20 |-> 16 * HexVal(AddressDigits(a)[2 * i - 1]) + HexVal(AddressDigits(a)[2 * i])]

\* The hash input the layout prescribes.
ExpectedHashInput(act, vaultAddress, nonce) ==
    encode(act) \o BigEndian64(nonce.w)
    \o (IF vaultAddress.k = "null" THEN <<0>> ELSE <<1>> \o AddressBytes20(vaultAddress.v))

\* C1: for every action, every nonce in 0..2^64-1 and every routing address that is
\* null or a well-formed 20-byte hex address, with or without 0x, actionHash and
\* hashAction hash exactly the serialized action, then the nonce as 8 big-endian
\* bytes, then 0x00 for no address or 0x01 and the 20 address bytes: the input is
\* 9 or 29 bytes longer than the serialized action.
C1_HashInputLayout ==
    (/\ IsHashCall
     /\ InUint64(call.nonce)
     /\ (call.vaultAddress.k = "null" \/ IsWellFormedAddress(call.vaultAddress.v)))
    => /\ ret.ok
       /\ ret.val = keccak256(ExpectedHashInput(call.action, call.vaultAddress, call.nonce))
       /\ Len(ret.val.v) = Len(encode(call.action))
                           + (IF call.vaultAddress.k = "null" THEN 9 ELSE 29)

\* hashAction has hashed the order of the scripts with a timestamp and a 0x address
\* of mixed case: 29 bytes follow the action.
C1_Witness ==
    /\ IsHashCall
    /\ call.op = "hashAction"
    /\ call.action = orderWiresToOrderAction(<<WireOf(ScriptOrder)>>)
    /\ call.nonce = JsInt(<<0, 396, 12345, 54321>>)
    /\ call.vaultAddress = T(HexPrefix \o MixedHex40)
    /\ ret.ok
    /\ Len(ret.val.v) = Len(encode(call.action)) + 29

\* C2: hashing with a routing address that is not null and not 40 hex characters
\* after the optional 0x fails and returns no digest.
C2_MalformedAddressFails ==
    (/\ IsHashCall
     /\ call.vaultAddress.k # "null"
     /\ ~IsWellFormedAddress(call.vaultAddress.v))
    => ~ret.ok

\* C3: for a fixed action and nonce and a routing address the hasher accepts, the
\* hash input with no address differs from the hash input with the address, and so
\* do the two digests.
C3_AbsenceIsSigned ==
    (IsHashCall /\ call.vaultAddress.k # "null" /\ ret.ok)
    => /\ HashBy(call.op, call.action, Null, call.nonce).ok
       /\ HashBy(call.op, call.action, Null, call.nonce).val.v # ret.val.v
       /\ HashBy(call.op, call.action, Null, call.nonce) # ret

\* actionHash has hashed an action with the address of 20 zero bytes.
C3_Witness ==
    /\ IsHashCall
    /\ call.op = "actionHash"
    /\ call.vaultAddress = T(HexPrefix \o Rep("0", 40))
    /\ ret.ok
    /\ actionHash(call.action, Null, call.nonce).ok

---------------------------------------------------------------------------
(* Properties of the signature normalisation and of the order encoder.     *)

IsSigCall == Returned /\ call.op \in {"splitSig", "Signature.from"}

\* The text is 0x and 65 bytes in hex digits of either case.
IsRaw65(sig) ==
    /\ StartsWith(sig, HexPrefix)
    /\ Len(sig) = 132
    /\ \A i \in 3..132 : IsHexChar(sig[i])

\* The last byte of a raw signature of 65 bytes.
RecoveryByte(sig) == 16 * HexVal(sig[131]) + HexVal(sig[132])

\* C4: signature normalisation maps the recovery byte 0 and 27 to v = 27, 1 and 28
\* to v = 28, and fails for every other value of the byte; every Signature returned
\* has v in {27, 28}.
C4_RecoveryByteNormalised ==
    /\ (IsSigCall /\ ret.ok) => ret.val.v \in {27, 28}
    /\ (IsSigCall /\ IsRaw65(call.sig)) =>
          IF RecoveryByte(call.sig) \in {0, 27} THEN ret.ok /\ ret.val.v = 27
          ELSE IF RecoveryByte(call.sig) \in {1, 28} THEN ret.ok /\ ret.val.v = 28
          ELSE ~ret.ok

IsWireCall == Returned /\ call.op \in {"orderRequestToOrderWire", "orderRequestToOrderWireEx"}

WireKeys == << <<"a">>, <<"b">>, <<"p">>, <<"s">>, <<"r">>, <<"t">> >>

\* C5: orderRequestToOrderWire returns a wire whose keys are a, b, p, s, r, t in
\* this order, followed by c only when a client id was supplied; with a cloid that
\* is null or undefined the wire has no key c at all, and with a Cloid c is its
\* toRaw() text.
C5_WireKeyOrder ==
    (IsWireCall /\ ret.ok) =>
        IF call.order.cloid.k = "Cloid"
        THEN /\ Keys(ret.val) = WireKeys \o << <<"c">> >>
             /\ Get(ret.val, <<"c">>) = T(call.order.cloid.rawCloid)
        ELSE /\ Keys(ret.val) = WireKeys
             /\ ~HasKey(ret.val, <<"c">>)

\* The order example has encoded a request whose cloid is null: six keys, no c.
C5_Witness ==
    /\ IsWireCall
    /\ call.op = "orderRequestToOrderWireEx"
    /\ call.order.cloid = Null
    /\ ret.ok
    /\ Keys(ret.val) = WireKeys

IsOrderTypeCall == Returned /\ call.op = "orderTypeToWire"

\* The trigger price of a trigger order type.
TriggerPxOf(orderType) == Get(Get(orderType, S_trigger), S_triggerPx).v

\* The wire form of a trigger order type whose price renders as px.
ExpectedTriggerWire(orderType, px) ==
    Obj(<< <<S_trigger,
             Obj(<< <<S_isMarket, Get(Get(orderType, S_trigger), S_isMarket)>>,
                    <<S_triggerPx, T(px)>>,
                    <<S_tpsl, Get(Get(orderType, S_trigger), S_tpsl)>> >>)>> >>)

\* C6: orderTypeToWire returns {limit: {tif}} unchanged for a Limit, the trigger
\* object with the floatToWire rendering of the price and isMarket and tpsl
\* unchanged for a Trigger, and fails for every other shape, among them an object
\* whose limit or trigger key holds no value.
C6_OrderTypeShapes ==
    IsOrderTypeCall =>
        IF call.orderType \in LimitTypes THEN ret = Ok(call.orderType)
        ELSE IF call.orderType \in TriggerTypes
        THEN IF floatToWire(TriggerPxOf(call.orderType)).ok
             THEN ret = Ok(ExpectedTriggerWire(call.orderType,
                                               floatToWire(TriggerPxOf(call.orderType)).val))
             ELSE ~ret.ok
        ELSE ~ret.ok

---------------------------------------------------------------------------
(* Properties of the numeric codec and of Cloid.                           *)

IsFloatCall == Returned /\ call.op = "floatToWire"

\* The number 1e-12 of the program: the double nearest to 1e-12.
OneE_12 == DoubleOf([neg |-> FALSE, ip |-> <<>>, fp |-> <<0, 0, 0, 0, 0, 0, 0, 0, 0, 0, 0, 1>>])

\* x cut after 8 fraction digits, and the next number of 8 fraction digits away
\* from zero.
Floor8(x) == Normal(x.neg, x.ip, SubSeq(PadRight(x.fp, 8), 1, 8))

Ceil8Digits(x) == PadLeft(IncDigits(x.ip \o SubSeq(PadRight(x.fp, 8), 1, 8)), 8)

Ceil8(x) ==
    Normal(x.neg, SubSeq(Ceil8Digits(x), 1, Len(Ceil8Digits(x)) - 8),
           SubSeq(Ceil8Digits(x), Len(Ceil8Digits(x)) - 7, Len(Ceil8Digits(x))))

\* x rounded to 8 decimals: the nearer of the two, the one away from zero on a tie.
Nearest8(x) ==
    IF GreaterEq(AbsDiff(Floor8(x), x), AbsDiff(Ceil8(x), x)) /\ ~IsZero(AbsDiff(Floor8(x), x))
    THEN Ceil8(x)
    ELSE Floor8(x)

\* Two numbers are the same number (zero has one value whatever its sign).
SameNumber(a, b) == IsZero(AbsDiff(a, b))

\* The numbers are those of the program: x is the double the call was made with,
\* x rounded to 8 decimals is the double nearest to r, the multiple of 1e-8 nearest
\* to x.  From 1e21 up a number is rendered by the fewest digits that denote it,
\* which are not its exact value.
LossOrRendering(x, r) ==
    IF GreaterEq(AbsDiff(DoubleOf(r), x), OneE_12)
    THEN ret = Err("floatToWire causes rounding")
    ELSE /\ ret.ok
         /\ IF Len(x.ip) >= 22 THEN SameNumber(DoubleOf(ParseNumber(ret.val)), x)
            ELSE SameNumber(ParseNumber(ret.val), r)

RoundedTo8(x) == LossOrRendering(x, Nearest8(x))

\* C7: floatToWire(x) fails with the precision-loss error whenever x rounded to 8
\* decimals differs from x by 1e-12 or more, and otherwise returns a rendering of x
\* rounded to 8 decimals; it returns no string for a value it had to round by
\* 1e-12 or more.
C7_PrecisionLoss == IsFloatCall => RoundedTo8(DoubleOf(call.x))

\* floatToWire(0.123456785) has thrown.
C7_Witness ==
    /\ IsFloatCall
    /\ call.x = Num_0_123456785
    /\ ret = Err("floatToWire causes rounding")

\* The text after the optional minus sign.
Unsigned(t) == IF t # <<>> /\ Head(t) = "-" THEN Tail(t) ELSE t

\* Where the decimal point of a text is: 0 when it has none.
PointAt(t) == IF \E i \in 1..Len(t) : t[i] = "." THEN CHOOSE i \in 1..Len(t) : t[i] = "." ELSE 0

\* Canonical plain decimal form: an optional minus sign, integer digits with no
\* leading zero (a lone 0 excepted), and optionally a point and fraction digits
\* that do not end in 0; no other character; the minus sign only before a value
\* that is not zero.
IsPlainDecimal(t) ==
    /\ Unsigned(t) # <<>>
    /\ \A i \in 1..Len(Unsigned(t)) :
          IsDigitChar(Unsigned(t)[i]) \/ (Unsigned(t)[i] = "." /\ i = PointAt(Unsigned(t)))
    /\ PointAt(Unsigned(t)) # 1
    /\ PointAt(Unsigned(t)) # Len(Unsigned(t))
    /\ PointAt(Unsigned(t)) > 0 => Unsigned(t)[Len(Unsigned(t))] # "0"
    /\ (Unsigned(t)[1] = "0") => (Len(Unsigned(t)) = 1 \/ PointAt(Unsigned(t)) = 2)
    /\ (Unsigned(t) # t) => \E i \in 1..Len(Unsigned(t)) : Unsigned(t)[i] \notin {"0", "."}

\* C8: every string floatToWire returns is in canonical plain decimal form: no
\* exponent notation, no unnecessary trailing zeros, no leading zeros, a minus sign
\* only for a value that is negative and not zero; zero renders as "0".
C8_PlainDecimal == (IsFloatCall /\ ret.ok) => IsPlainDecimal(ret.val)

IsCloidCall == Returned /\ call.op \in {"Cloid.fromStr", "new Cloid", "Cloid.fromInt"}

\* 0x and 32 lowercase hex characters.
IsCanonicalCloid(t) ==
    /\ StartsWith(t, HexPrefix)
    /\ Len(t) = 34
    /\ \A i \in 3..34 : IsLowerHexChar(t[i])

\* A number is an integer that is not negative and needs at most 32 hex digits.
IsCloidInt(n) == ~n.neg /\ ~n.frac /\ Len(StripZeroChars(LimbsHex(n.w))) <= 32

\* C9: every Cloid that fromStr, fromInt or the constructor returns has the text 0x
\* and 32 lowercase hex characters, which toRaw() returns; construction fails for
\* every other text and for an integer that is negative, fractional or needs more
\* than 32 hex digits.
C9_CloidForm ==
    IsCloidCall =>
        /\ ret.ok => IsCanonicalCloid(Cloid_toRaw(ret.val))
        /\ (call.op # "Cloid.fromInt" /\ ret.ok) => Cloid_toRaw(ret.val) = call.cloid
        /\ (call.op # "Cloid.fromInt" /\ ~IsCanonicalCloid(call.cloid)) => ~ret.ok
        /\ (call.op = "Cloid.fromInt" /\ ~IsCloidInt(call.cloid)) => ~ret.ok

---------------------------------------------------------------------------
(* Properties of the signing calls.                                        *)

\* The places of the log of the signing capability that call c wrote.
SignerCalls(c) == {i \in 1..Len(signer) : signer[i].call = c}

\* What the encoder of the script of a flow returns or throws for its request.
WireOfFlow(f) ==
    IF f.script = "signingTest" THEN orderRequestToOrderWire(f.order, f.order.asset)
    ELSE orderRequestToOrderWireEx(f.order)

\* What the hasher of the script of a flow returns or throws for its encoded request.
HashOfFlow(f) ==
    IF f.script = "signingTest"
    THEN actionHash(orderWiresToOrderAction(<<WireOfFlow(f).val>>), f.vaultAddress, f.nonce)
    ELSE hashAction(orderWiresToOrderAction(<<WireOfFlow(f).val>>), f.vaultAddress, f.nonce)

\* C10: the pipeline is all-or-nothing.  When rendering a magnitude or encoding the
\* order type fails, the call ends with that error, no order wire, action or
\* digest exists and the signing capability is not invoked; when hashing fails,
\* the call ends with that error, no digest exists and the signing capability is
\* not invoked; the signing capability is invoked at most once, only with the
\* digest the hasher computed for the call's action, and exactly once in a call
\* that returns a signature.
C10_AllOrNothing ==
    \A c \in Calls :
        /\ Cardinality(SignerCalls(c)) <= 1
        /\ (pc[c] # "start" /\ flow[c].key /\ ~WireOfFlow(flow[c]).ok) =>
              /\ pc[c] = "done"
              /\ outcome[c] = WireOfFlow(flow[c])
              /\ wire[c] = None /\ action[c] = None /\ digest[c] = None
              /\ SignerCalls(c) = {}
        /\ (/\ pc[c] \notin {"start", "encoded"} /\ flow[c].key
            /\ WireOfFlow(flow[c]).ok /\ ~HashOfFlow(flow[c]).ok) =>
              /\ pc[c] = "done"
              /\ outcome[c] = HashOfFlow(flow[c])
              /\ digest[c] = None
              /\ SignerCalls(c) = {}
        /\ SignerCalls(c) # {} =>
              /\ flow[c].key /\ WireOfFlow(flow[c]).ok /\ HashOfFlow(flow[c]).ok
              /\ digest[c] = HashOfFlow(flow[c]).val
              /\ \A i \in SignerCalls(c) : signer[i].message.connectionId = digest[c]
        /\ (outcome[c] # None /\ outcome[c].ok) =>
              /\ Cardinality(SignerCalls(c)) = 1
              /\ digest[c] # None

\* signL1Action has ended with the error of the hasher (a nonce of 2^64) after the
\* request was encoded: no digest, and the signing capability was not invoked.
C10_Witness ==
    \E c \in Calls :
        /\ pc[c] = "done"
        /\ flow[c].script = "signingTest"
        /\ wire[c] # None /\ action[c] # None
        /\ digest[c] = None
        /\ outcome[c] = Err("ERR_OUT_OF_RANGE")
        /\ signer = <<>>

---------------------------------------------------------------------------
(* Properties of signing calls that overlap.                               *)

\* What call c holds: its position and the values of its own variables.
LocalOf(c) ==
    [pc |-> pc[c], wire |-> wire[c], action |-> action[c], digest |-> digest[c],
     outcome |-> outcome[c]]

\* The network a signing call of flow f names in its phantom agent.
NetworkOf(f) == IF f.script = "signingTest" THEN f.isMainnet ELSE IS_MAINNET

\* What the signing call of flow f returns or throws when the signing capability
\* answers raw.
ReturnOf(f, raw) == IF f.script = "signingTest" THEN SignatureFrom(raw) ELSE splitSig(raw)

\* What a signing call of flow f returns or throws once the capability has answered.
ReturnsOf(f) == {ReturnOf(f, raw) : raw \in WalletAnswers} \cup {Err("signTypedData rejected")}

\* A state of a call: its position and its values.
Local(p, w, a, d, o) == [pc |-> p, wire |-> w, action |-> a, digest |-> d, outcome |-> o]

\* The states of a call once its request is encoded as wire w and action a, and
\* its hasher has returned or thrown h.
AloneStatesSigning(f, w, a, h) ==
    IF ~h.ok THEN { Local("done", w, a, None, h) }
    ELSE { Local("awaiting", w, a, h.val, None) }
         \cup { Local(po[1], w, a, h.val, po[2]) :
                  po \in { qo \in {"signed", "posting", "done"} \X ReturnsOf(f) :
                             qo[1] = "done" \/ qo[2].ok } }

\* The states of a call whose encoder has returned or thrown w.
AloneStatesEncoded(f, w) ==
    IF ~w.ok THEN { Local("done", None, None, None, w) }
    ELSE { Local("encoded", w.val, orderWiresToOrderAction(<<w.val>>), None, None) }
         \cup AloneStatesSigning(f, w.val, orderWiresToOrderAction(<<w.val>>), HashOfFlow(f))

\* The states a call of flow f, with its key set, passes through when it runs alone.
AloneStates(f) ==
    { Local("start", None, None, None, None) } \cup AloneStatesEncoded(f, WireOfFlow(f))

\* The requests of call c the transport has received.
SentBy(c) == {i \in 1..Len(sent) : sent[i].call = c}

\* Call c is between its call of the signing capability and the answer.
Suspended(c) == pc[c] = "awaiting"

\* The state of call c is that of a run of its flow alone, the signing capability
\* got from it the phantom agent of its own digest and network, and the transport
\* its own nonce and signature.
OwnState(c) ==
    /\ LocalOf(c) \in AloneStates(flow[c])
    /\ \A i \in SignerCalls(c) :
          signer[i] = TypedData(c, constructPhantomAgent(HashOfFlow(flow[c]).val,
                                                         NetworkOf(flow[c])))
    /\ Cardinality(SignerCalls(c)) = IF digest[c] = None THEN 0 ELSE 1
    /\ \A i \in SentBy(c) : sent[i].nonce = flow[c].nonce /\ sent[i].signature = outcome[c].val

\* A step leaves every call but one as it was.
OneCallSteps ==
    \E c \in Calls : \A d \in Calls \ {c} :
        /\ LocalOf(d)' = LocalOf(d)
        /\ flow'[d] = flow[d]

\* C11: signing invocations are independent.  For any two calls of signL1Action or
\* signStandardL1Action that overlap, interleaved in any order at the suspension on
\* the signing capability, each call passes to the signer the phantom agent built
\* from its own action, nonce, routing address and network and returns what it
\* returns when it runs alone, and no step of one call changes what the other holds.
C11_CallsIndependent ==
    /\ [](\A c \in Calls : OwnState(c))
    /\ [][OneCallSteps]_vars

\* Two calls of different scripts and inputs overlap: the second called the
\* signing capability first and is still suspended on it, the first called it
\* after that and has already returned its signature.
C11_Witness ==
    /\ Calls = {1, 2}
    /\ flow[1].script = "signingTest" /\ flow[2].script = "orderExample"
    /\ flow[1].vaultAddress # flow[2].vaultAddress
    /\ flow[1].nonce # flow[2].nonce
    /\ pc[1] = "signed" /\ outcome[1].ok
    /\ Suspended(2)
    /\ Len(signer) = 2 /\ signer[1].call = 2 /\ signer[2].call = 1
    /\ signer[1].message # signer[2].message

---------------------------------------------------------------------------
(* Properties of floatToInt.                                               *)

IsFloatToIntCall ==
    Returned /\ call.op \in {"floatToInt", "floatToUsdInt", "floatToIntForHashing"}

\* The power of the call: 6 for floatToUsdInt, 8 for floatToIntForHashing.
PowerOf(c) ==
    IF c.op = "floatToUsdInt" THEN 6 ELSE IF c.op = "floatToIntForHashing" THEN 8 ELSE c.power

\* x * 10^power of the call, as the program's numbers give it: the double nearest
\* to the product of the double x and Math.pow(10, power), for each value
\* Math.pow may have returned.
ProductsOf(c) == TimesPow10(DoubleOf(c.x), PowerOf(c))

\* The two integers next to w: the one toward zero and the one away from zero.
IntegerToward0(w) == Normal(w.neg, w.ip, <<>>)

IntegerAwayFrom0(w) == Normal(w.neg, IncDigits(w.ip), <<>>)

\* The distance of w to the nearest integer.
DistanceToInteger(w) ==
    IF GreaterEq(AbsDiff(IntegerToward0(w), w), AbsDiff(IntegerAwayFrom0(w), w))
    THEN AbsDiff(IntegerAwayFrom0(w), w)
    ELSE AbsDiff(IntegerToward0(w), w)

\* 1e-3, written out.
OneE_3 == [neg |-> FALSE, ip |-> <<>>, fp |-> <<0, 0, 1>>]

\* The call whose product is w has thrown when w is 1e-3 or more away from every
\* integer, and has returned the integer nearest to w otherwise.  A product above
\* every finite double is Infinity, which no integer is nearest to: nothing is left
\* to the call but to fail.
NearestOrError(w) ==
    IF ~IsFinite(w) THEN ~ret.ok
    ELSE IF GreaterEq(DistanceToInteger(w), OneE_3)
    THEN ret = Err("floatToInt causes rounding")
    ELSE /\ ret.ok
         /\ IsFinite(ret.val)
         /\ ret.val.fp = <<>>
         /\ AbsDiff(ret.val, w) = DistanceToInteger(w)

\* On the products that are finite floatToInt returns the nearest integer or fails.
FiniteProductsNearest ==
    (IsFloatToIntCall /\ \A w \in ProductsOf(call) : IsFinite(w)) =>
        \E w \in ProductsOf(call) : NearestOrError(w)

\* C12: floatToInt(x, power) returns the integer nearest to x * 10^power, and fails
\* with the precision-loss error whenever that product differs from its nearest
\* integer by at least 1e-3; it never returns a clamped or truncated value.
\* floatToUsdInt uses power 6 and floatToIntForHashing uses power 8.
C12_NearestInteger == IsFloatToIntCall => \E w \in ProductsOf(call) : NearestOrError(w)

---------------------------------------------------------------------------
(* Properties of splitSig.                                                 *)

IsSplitSigCall == Returned /\ call.op = "splitSig"

\* The text is 0x and then hex digits of either case, any number of them.
IsHexText(sig) == StartsWith(sig, HexPrefix) /\ \A i \in 3..Len(sig) : IsHexChar(sig[i])

\* The bytes a hex text with its 0x stands for.
BytesOf(text) == BufferFromHex(Drop(text, 2))

\* The value is 0x and 32 bytes in hex digits.
IsBytes32(text) == IsHexText(text) /\ Len(text) = 66 /\ Len(BytesOf(text)) = 32

\* What splitSig returned is r and s of the raw signature sig: the first 32 bytes
\* and the next 32 bytes, each as 0x and 32 bytes in hex digits.
SplitsRaw(sig, val) ==
    /\ IsBytes32(val.r) /\ IsBytes32(val.s)
    /\ BytesOf(val.r) = SubSeq(BytesOf(sig), 1, 32)
    /\ BytesOf(val.s) = SubSeq(BytesOf(sig), 33, 64)

\* splitSig refuses every text whose length is not 2 + 130, and of a 0x-prefixed
\* hex text it accepts it returns r and s as bytes 1..32 and 33..64.
SplitSigOfHexText ==
    IsSplitSigCall =>
        /\ Len(call.sig) # 132 => ret = Err("bad sig length")
        /\ (IsHexText(call.sig) /\ ret.ok) =>
              /\ Len(BytesOf(call.sig)) = 65
              /\ SplitsRaw(call.sig, ret.val)

\* C13: splitSig accepts only a raw signature of exactly 65 bytes, 130 hex
\* characters after the 0x prefix, and fails with the length error for a text of
\* any other length; when it returns, r is the first 32 bytes and s the next 32
\* bytes of the raw signature, each a 0x-prefixed value of 32 bytes.
C13_SplitSigLength ==
    IsSplitSigCall =>
        /\ Len(call.sig) # 132 => ret = Err("bad sig length")
        /\ ret.ok =>
              /\ IsHexText(call.sig) /\ Len(BytesOf(call.sig)) = 65
              /\ SplitsRaw(call.sig, ret.val)

---------------------------------------------------------------------------
(* Properties of the requests handed to the transport.                     *)

\* What the verifier hashes for a request of a flow: the action and the nonce of
\* the request with the routing address of the flow, by the hasher of its script.
VerifierHash(f, request) ==
    IF f.script = "signingTest" THEN actionHash(request.action, f.vaultAddress, request.nonce)
    ELSE hashAction(request.action, f.vaultAddress, request.nonce)

\* The request was handed over after the signing call of c returned a signature,
\* and carries that signature, the nonce of c and the action c hashed and signed.
CarriesWhatWasSigned(c, request) ==
    /\ pc[c] \in {"posting", "done"}
    /\ outcome[c].ok /\ request.signature = outcome[c].val
    /\ Cardinality(SignerCalls(c)) = 1
    /\ request.nonce = flow[c].nonce
    /\ request.action = action[c]
    /\ VerifierHash(flow[c], request) = Ok(digest[c])

\* C14: in signingTest and orderExample, for every order request the payload handed
\* to the transport is sent only after signing has completed, and it carries the
\* signature together with the same nonce and an action equal to the one that was
\* hashed and signed, so that the verifier recomputes the signed hash from the
\* submitted payload.
C14_PayloadIsSigned ==
    \A i \in 1..Len(sent) : CarriesWhatWasSigned(sent[i].call, sent[i])

\* signingTest has handed over its request, for a routing address and the test
\* network: the action written out in the script is the action that was signed,
\* and the request carries the signature the signing call returned.
C14_Witness ==
    \E i \in 1..Len(sent) :
        /\ flow[sent[i].call].script = "signingTest"
        /\ flow[sent[i].call].vaultAddress # Null /\ ~flow[sent[i].call].isMainnet
        /\ pc[sent[i].call] = "posting"
        /\ sent[i].action = signingTestAction(0) /\ sent[i].action = action[sent[i].call]
        /\ outcome[sent[i].call].ok /\ sent[i].signature = outcome[sent[i].call].val

---------------------------------------------------------------------------
(* The two hashers against each other.                                     *)

\* The hasher the call does not name.
OtherHasher(op) == IF op = "actionHash" THEN "hashAction" ELSE "actionHash"

\* Two results agree: both are errors, or both are the same digest.
SameDigestOrBothFail(a, b) == a.ok = b.ok /\ (a.ok => a.val = b.val)

\* C15: the two hashing implementations agree.  For every action, nonce and routing
\* address (null, well-formed, or malformed text), hashAction of Signing.tsx and
\* actionHash of the signing module either both fail or both hash the identical
\* byte string, so they return the same 32-byte digest.
C15_HashersAgree ==
    IsHashCall =>
        SameDigestOrBothFail(ret, HashBy(OtherHasher(call.op), call.action, call.vaultAddress,
                                         call.nonce))

=============================================================================
